---------------------------- MODULE Spec2Model ----------------------------
(***************************************************************************)
(* Model of the job rate limiter (class Limiter, src/unnamed/part_000).    *)
(*                                                                         *)
(* State: the Redis counter store, the Redlock lock table, the clock, and  *)
(* for every exec() call in flight its arguments, its position in exec()   *)
(* and its local variables (rActions, err).  Every await of exec() is a    *)
(* suspension point, so every await is the end of one action.              *)
(*                                                                         *)
(* Redis and Redlock are external collaborators; they are modelled by      *)
(* their contracts: GET / SET PX / SET KEEPTTL / SET / PTTL on single      *)
(* keys, and a multi-key exclusive lock with a lease and a retry window.   *)
(* Durations are in milliseconds; the clock advances in steps of Quantum.  *)
(***************************************************************************)
EXTENDS Integers, Sequences, FiniteSets, TLC

(***************************************************************************)
(* Bounds of the model.                                                    *)
(***************************************************************************)
NumCalls == 3          \* exec() calls that may be in flight at once
MaxPar == 2            \* calls of overlapping callers in flight at once
MaxStarts == 4         \* exec() invocations of a sequential caller
ParStarts == 3         \* exec() invocations of overlapping callers
RaceStarts == 2        \* exec() invocations of callers with different kinds
MaxTicks == 5          \* clock steps in one behaviour
RaceTicks == 1         \* clock steps, callers with different kinds
NumInstances == 2      \* Limiter instances over one Redis
WaitTicks == 2         \* clock steps, callers who wait for each other's lock

(***************************************************************************)
(* Program constants.                                                      *)
(***************************************************************************)
DefaultLockDuration == 5000   \* this.lockDuration = ... || 5000
ReleaseLockDuration == 5000   \* this.redlock.acquire(keys, 5000)
RetryCount == 10              \* Redlock settings passed by example.ts
RetryDelay == 200

\* The lock client gives up after RetryCount retries, RetryDelay apart.
RetryWindow == RetryCount * RetryDelay
\* The clock step: half a retry window.
Quantum == RetryWindow \div 2

Calls == 1..NumCalls

(***************************************************************************)
(* JavaScript values.  Undefined stands for the value undefined of an      *)
(* optional string (opts.kind); NoItems for an absent opts.items.          *)
(***************************************************************************)
Undefined == "<undefined>"
NoItems == -1

\* Template interpolation `${v}`.
Str(v) == IF v = Undefined THEN "undefined" ELSE v
\* Truthiness of an optional string.
Truthy(v) == v # Undefined /\ v # ""
\* `${kind || ""}`
OrEmpty(v) == IF Truthy(v) THEN v ELSE ""
\* `${"-" + kind || ""}`: "-" + kind is never the empty string, so the
\* alternative "" is never taken and undefined is spelled out.
DashKind(v) == "-" \o Str(v)

(***************************************************************************)
(* keyGenerators (this.id is LimiterId).                                   *)
(***************************************************************************)
LimiterId == "L"

MaxItemsNamespaceKey(ns, kind) == "rl-mppt-" \o LimiterId \o "-" \o ns \o DashKind(kind)
MaxItemsKeyspaceKey(ns, key, kind) ==
    "rl-mppt-" \o LimiterId \o "-" \o ns \o "-" \o key \o OrEmpty(kind)
MaxJobsNamespaceKey(ns, kind) == "rl-mrpt-" \o LimiterId \o "-" \o ns \o DashKind(kind)
MaxJobsKeyspaceKey(ns, key, kind) ==
    "rl-mrpt-" \o LimiterId \o "-" \o ns \o "-" \o key \o DashKind(kind)
MaxConcNamespaceKey(ns, kind) == "rl-mcr-" \o LimiterId \o "-" \o ns \o DashKind(kind)
MaxConcKeyspaceKey(ns, key, kind) ==
    "rl-mcr-" \o LimiterId \o "-" \o ns \o "-" \o key \o DashKind(kind)

\* getAllKeys(ns, key, kind): the resources of the lock.
getAllKeys(ns, key, kind) ==
    { MaxItemsNamespaceKey(ns, kind),
      MaxItemsKeyspaceKey(ns, key, Undefined),
      MaxJobsNamespaceKey(ns, kind),
      MaxJobsKeyspaceKey(ns, key, Undefined),
      MaxConcNamespaceKey(ns, kind),
      MaxConcKeyspaceKey(ns, key, Undefined) }

(***************************************************************************)
(* Rules.  An optional limit is a record with a flag def; NoRule is the    *)
(* absent one.  A concurrency limit uses count only.                       *)
(***************************************************************************)
NoRule == [def |-> FALSE, count |-> 0, timespan |-> 0]
Limit(c, w) == [def |-> TRUE, count |-> c, timespan |-> w]
Conc(c) == [def |-> TRUE, count |-> c, timespan |-> 0]

KindNames == {"x", "y"}
NoKinds == [k \in KindNames |-> NoRule]
NoLimits == [global |-> NoRule, kinds |-> NoKinds]
NoRules == [maxJobsPerTimespan |-> NoLimits,
            maxItemsPerTimespan |-> NoLimits,
            maxConcurrentJobs |-> NoLimits]

\* rules?.scope?.type?.kinds?.[kind]
KindRule(lim, kind) == IF kind \in DOMAIN lim.kinds THEN lim.kinds[kind] ELSE NoRule

\* Truthiness of a {count, timespan} object and of a number.
ObjAlways(r) == TRUE
ObjTruthy(r) == r.def
NumTruthy(r) == r.def /\ r.count # 0

(***************************************************************************)
(* The Redis store: a function from the keys that exist to [val, ttl];     *)
(* ttl is the remaining time to live in ms, or NoTTL.                      *)
(***************************************************************************)
NoTTL == -1
NoKey == -2

\* parseInt(await this.redis.get(rKey) || "0")
GetCount(s, k) == IF k \in DOMAIN s THEN s[k].val ELSE 0
\* redis.pttl
Pttl(s, k) == IF k \in DOMAIN s THEN s[k].ttl ELSE NoKey
\* getExpiresIn
getExpiresInRaw(s, k) == Pttl(s, k)
getExpiresIn(s, k) ==
    IF Pttl(s, k) = NoTTL THEN 0
    ELSE IF Pttl(s, k) = NoKey THEN 0
    ELSE Pttl(s, k)

Put(s, k, e) == [x \in DOMAIN s \cup {k} |-> IF x = k THEN e ELSE s[x]]
\* redis.set(k, v, "PX", ttl)
SetPX(s, k, v, ttl) == Put(s, k, [val |-> v, ttl |-> ttl])
\* redis.set(k, v, "KEEPTTL"): a key that no longer exists gets no expiry
SetKeepTTL(s, k, v) ==
    Put(s, k, [val |-> v, ttl |-> IF k \in DOMAIN s THEN s[k].ttl ELSE NoTTL])
\* redis.set(k, v): discards any expiry
SetPlain(s, k, v) == Put(s, k, [val |-> v, ttl |-> NoTTL])


(***************************************************************************)
(* The twelve check functions.  Each is given by what distinguishes it     *)
(* from the others: the rule that guards it, the counter key it reads,     *)
(* the rule whose count is the threshold, the rule whose timespan is the   *)
(* TTL of a new window, and the scope / type / global of its error.        *)
(* r is this.rules.                                                        *)
(***************************************************************************)
CheckDesc(on, k, lim, win, scope, type, global) ==
    [on |-> on, rKey |-> k, limit |-> lim, window |-> win,
     scope |-> scope, type |-> type, global |-> global]

checkNamespaceMaxJobsPerTimespanGlobal(r, ns, key, kind) ==
    CheckDesc(ObjTruthy(r.namespace.maxJobsPerTimespan.global),
              MaxJobsNamespaceKey(ns, ns),
              r.namespace.maxJobsPerTimespan.global,
              r.namespace.maxJobsPerTimespan.global,
              "namespace", "maxJobsPerTimespan", TRUE)

checkKeyMaxJobsPerTimespanGlobal(r, ns, key, kind) ==
    CheckDesc(ObjTruthy(r.keyspace.maxJobsPerTimespan.global),
              MaxJobsKeyspaceKey(ns, key, Undefined),
              r.keyspace.maxJobsPerTimespan.global,
              r.keyspace.maxJobsPerTimespan.global,
              "key", "maxJobsPerTimespan", TRUE)

checkNamespaceMaxJobsPerTimespanPerKind(r, ns, key, kind) ==
    CheckDesc(ObjTruthy(KindRule(r.namespace.maxJobsPerTimespan, kind)),
              MaxJobsNamespaceKey(ns, kind),
              KindRule(r.namespace.maxJobsPerTimespan, kind),
              r.namespace.maxJobsPerTimespan.global,
              "namespace", "maxJobsPerTimespan", FALSE)

checkKeyMaxJobsPerTimespanPerKind(r, ns, key, kind) ==
    CheckDesc(ObjTruthy(KindRule(r.keyspace.maxJobsPerTimespan, kind)),
              MaxJobsKeyspaceKey(ns, kind, Undefined),
              KindRule(r.namespace.maxJobsPerTimespan, kind),
              r.keyspace.maxJobsPerTimespan.global,
              "namespace", "maxJobsPerTimespan", FALSE)

checkNamespaceMaxItemsPerTimespanGlobal(r, ns, key, kind) ==
    CheckDesc(ObjTruthy(r.namespace.maxItemsPerTimespan.global),
              MaxItemsNamespaceKey(ns, Undefined),
              r.namespace.maxItemsPerTimespan.global,
              r.namespace.maxItemsPerTimespan.global,
              "namespace", "maxItemsPerTimespan", TRUE)

checkNamespaceMaxItemsPerTimespanPerKind(r, ns, key, kind) ==
    CheckDesc(ObjTruthy(KindRule(r.namespace.maxItemsPerTimespan, kind)),
              MaxItemsNamespaceKey(ns, kind),
              KindRule(r.namespace.maxItemsPerTimespan, kind),
              KindRule(r.namespace.maxItemsPerTimespan, kind),
              "namespace", "maxItemsPerTimespan", FALSE)

checkKeyMaxItemsPerTimespanPerKind(r, ns, key, kind) ==
    CheckDesc(ObjTruthy(KindRule(r.keyspace.maxItemsPerTimespan, kind)),
              MaxItemsKeyspaceKey(ns, key, kind),
              KindRule(r.keyspace.maxItemsPerTimespan, kind),
              KindRule(r.keyspace.maxItemsPerTimespan, kind),
              "key", "maxItemsPerTimespan", FALSE)

checkKeyMaxItemsPerTimespanGlobal(r, ns, key, kind) ==
    CheckDesc(ObjTruthy(r.keyspace.maxItemsPerTimespan.global),
              MaxItemsKeyspaceKey(ns, key, Undefined),
              r.keyspace.maxItemsPerTimespan.global,
              r.keyspace.maxItemsPerTimespan.global,
              "key", "maxItemsPerTimespan", TRUE)

checkNamespaceMaxConcurrentJobsGlobal(r, ns, key, kind) ==
    CheckDesc(NumTruthy(r.namespace.maxConcurrentJobs.global),
              MaxConcNamespaceKey(ns, Undefined),
              r.namespace.maxConcurrentJobs.global,
              NoRule,
              "namespace", "maxConcurrentJobs", TRUE)

checkKeyMaxConcurrentJobsGlobal(r, ns, key, kind) ==
    CheckDesc(NumTruthy(r.keyspace.maxConcurrentJobs.global),
              MaxConcKeyspaceKey(ns, key, Undefined),
              r.keyspace.maxConcurrentJobs.global,
              NoRule,
              "key", "maxConcurrentJobs", TRUE)

checkNamespaceMaxConcurrentJobsPerKind(r, ns, key, kind) ==
    CheckDesc(NumTruthy(KindRule(r.namespace.maxConcurrentJobs, kind)),
              MaxConcNamespaceKey(ns, kind),
              KindRule(r.namespace.maxConcurrentJobs, kind),
              NoRule,
              "namespace", "maxConcurrentJobs", FALSE)

checkKeyMaxConcurrentJobsPerKind(r, ns, key, kind) ==
    CheckDesc(NumTruthy(KindRule(r.namespace.maxConcurrentJobs, kind)),
              MaxConcKeyspaceKey(ns, key, kind),
              KindRule(r.namespace.maxConcurrentJobs, kind),
              NoRule,
              "namespace", "maxConcurrentJobs", FALSE)

\* The checks of exec() in the order exec() awaits them.
execChecksByType(r, ns, key, kind, items) ==
    << checkNamespaceMaxConcurrentJobsGlobal(r, ns, key, kind),
       checkKeyMaxConcurrentJobsGlobal(r, ns, key, kind) >>
    \o (IF Truthy(kind)
        THEN << checkNamespaceMaxConcurrentJobsPerKind(r, ns, key, kind),
                checkKeyMaxConcurrentJobsPerKind(r, ns, key, kind) >>
        ELSE << >>)
    \o << checkNamespaceMaxJobsPerTimespanGlobal(r, ns, key, kind),
          checkKeyMaxJobsPerTimespanGlobal(r, ns, key, kind) >>
    \o (IF Truthy(kind)
        THEN << checkNamespaceMaxJobsPerTimespanPerKind(r, ns, key, kind),
                checkKeyMaxJobsPerTimespanPerKind(r, ns, key, kind) >>
        ELSE << >>)
    \o (IF items # NoItems
        THEN << checkNamespaceMaxItemsPerTimespanGlobal(r, ns, key, kind),
                checkKeyMaxItemsPerTimespanGlobal(r, ns, key, kind) >>
             \o (IF Truthy(kind)
                 THEN << checkNamespaceMaxItemsPerTimespanPerKind(r, ns, key, kind),
                         checkKeyMaxItemsPerTimespanPerKind(r, ns, key, kind) >>
                 ELSE << >>)
        ELSE << >>)
execChecks(r, ns, key, kind, items) ==
    << checkNamespaceMaxConcurrentJobsGlobal(r, ns, key, kind),
       checkNamespaceMaxJobsPerTimespanGlobal(r, ns, key, kind),
       checkKeyMaxConcurrentJobsGlobal(r, ns, key, kind),
       checkKeyMaxJobsPerTimespanGlobal(r, ns, key, kind) >>
    \o (IF items # NoItems
        THEN << checkNamespaceMaxItemsPerTimespanGlobal(r, ns, key, kind),
                checkKeyMaxItemsPerTimespanGlobal(r, ns, key, kind) >>
             \o (IF Truthy(kind)
                 THEN << checkNamespaceMaxItemsPerTimespanPerKind(r, ns, key, kind),
                         checkKeyMaxItemsPerTimespanPerKind(r, ns, key, kind) >>
                 ELSE << >>)
        ELSE << >>)
    \o (IF Truthy(kind)
        THEN << checkKeyMaxJobsPerTimespanPerKind(r, ns, key, kind),
                checkKeyMaxConcurrentJobsPerKind(r, ns, key, kind),
                checkNamespaceMaxConcurrentJobsPerKind(r, ns, key, kind),
                checkNamespaceMaxJobsPerTimespanPerKind(r, ns, key, kind) >>
        ELSE << >>)

\* A check whose guard is false returns at once, without any await on Redis.
ActiveChecks(r, ns, key, kind, items) ==
    SelectSeq(execChecks(r, ns, key, kind, items), LAMBDA d : d.on)

(***************************************************************************)
(* The four unregister functions, in the order of resetConcurrencyLimits.  *)
(***************************************************************************)
UnregDesc(on, k) == [on |-> on, rKey |-> k]

unregisterNamespaceJobGlobal(r, ns) ==
    UnregDesc(NumTruthy(r.namespace.maxConcurrentJobs.global),
              MaxConcNamespaceKey(ns, Undefined))
unregisterKeyJobGlobal(r, ns, key) ==
    UnregDesc(NumTruthy(r.keyspace.maxConcurrentJobs.global),
              MaxConcKeyspaceKey(ns, key, Undefined))
unregisterNamespaceKind(r, ns, kind) ==
    UnregDesc(NumTruthy(KindRule(r.namespace.maxConcurrentJobs, kind)),
              MaxConcNamespaceKey(ns, kind))
unregisterKeyKind(r, ns, key, kind) ==
    UnregDesc(NumTruthy(KindRule(r.keyspace.maxConcurrentJobs, kind)),
              MaxConcKeyspaceKey(ns, key, kind))

resetConcurrencyLimits(r, ns, key, kind) ==
    << unregisterNamespaceJobGlobal(r, ns),
       unregisterKeyJobGlobal(r, ns, key) >>
    \o (IF Truthy(kind)
        THEN << unregisterNamespaceKind(r, ns, kind),
                unregisterKeyKind(r, ns, key, kind) >>
        ELSE << >>)

ActiveUnregs(r, ns, key, kind) ==
    SelectSeq(resetConcurrencyLimits(r, ns, key, kind), LAMBDA d : d.on)

(***************************************************************************)
(* State.                                                                  *)
(***************************************************************************)
VARIABLES
    rules,        \* this.rules
    lockDuration, \* this.lockDuration
    bypassLimits, \* this.bypassLimits (the Limiter version with bypass())
    scn,          \* the callers: the arguments they pass, how many of their
                  \* calls overlap, whether their jobs may throw, and whether
                  \* the connection to Redis may fail
    store,        \* Redis: key -> [val, ttl]
    locks,        \* Redlock: set of [holder, keys, lease]; holder 0 is a
                  \* lock whose exec() has exited without releasing it
    clock,        \* clock steps so far
    starts,       \* exec() invocations so far
    pc,           \* position of each call in exec()
    args,         \* [ns, key, kind, items] of each call
    idx,          \* index of the check / unregister function being awaited
    rActions,     \* the staged Redis actions of each call
    err,          \* the LimiterError being built / returned
    cnt,          \* the local `count` of the unregister function
    waited,       \* ms the call has been retrying a lock acquisition
    hist          \* history: ordinal of the call, time of its start and of
                  \* its admission (commit) or rejection, number of times
                  \* its callback was called, the Limiter instance it was
                  \* made on, the staged writes that failed, whether its
                  \* check phase was bypassed

vars == << rules, lockDuration, bypassLimits, scn, store, locks, clock, starts,
           pc, args, idx, rActions, err, cnt, waited, hist >>

Args(ns, key, kind, items) == [ns |-> ns, key |-> key, kind |-> kind, items |-> items]
NoArgs == Args("", "", Undefined, NoItems)
NoErr == [scope |-> "", type |-> "", global |-> FALSE, limiterId |-> "",
          namespace |-> "", key |-> "", kind |-> Undefined, expiresIn |-> NoItems]
NoHist == [ord |-> 0, t0 |-> 0, tDec |-> 0, jobs |-> 0, inst |-> 0, lost |-> {},
           bypassed |-> FALSE]

\* Exits of exec(): [result, null]; [null, err]; a rejected promise carrying
\* the lock client's error, a TypeError, the Redis client's error, or the
\* job's own error.
Returned == {"done", "rejected"}
Thrown == {"acquireError", "reacquireError", "typeError", "storeError", "jobError"}
Exited == Returned \cup Thrown
\* Between the acquisition of a lock and its release.
InSection == {"check", "expires", "commit", "release", "unregGet", "unregSet", "release2"}

\* The fields of the i-th Limiter: every instance is constructed with the
\* same id, rules and lock options, and no method assigns to them.
InstanceUnruled(i) ==
    [id |-> LimiterId,
     rules |-> IF i <= 1 THEN rules ELSE [namespace |-> NoRules, keyspace |-> NoRules],
     lockDuration |-> lockDuration]
Instance(i) == [id |-> LimiterId, rules |-> rules, lockDuration |-> lockDuration]
This(c) == Instance(hist[c].inst)

keysOf(c) == getAllKeys(args[c].ns, args[c].key, args[c].kind)
checksOf(c) ==
    ActiveChecks(This(c).rules, args[c].ns, args[c].key, args[c].kind, args[c].items)
unregsOf(c) == ActiveUnregs(This(c).rules, args[c].ns, args[c].key, args[c].kind)

\* Redlock: a resource is locked while an unexpired lock names it.
Locked(ks) == \E l \in locks : l.keys \cap ks # {}
Lock(c, lease) == [holder |-> c, keys |-> keysOf(c), lease |-> lease]
\* lock.release()
ReleasedNever(c) == locks
Released(c) == {l \in locks : l.holder # c}
\* exec() exits and drops its lock handle without releasing: the lock stays
\* until its lease runs out.
Abandoned(c) == {IF l.holder = c THEN [l EXCEPT !.holder = 0] ELSE l : l \in locks}

\* this.lockDuration = redislockOptions?.lockDuration || 5000
LockDurationOf(opt) == IF opt = 0 THEN DefaultLockDuration ELSE opt

\* One staged action, applied.
RunAction(s, a) ==
    CASE a.mode = "PX" -> SetPX(s, a.key, a.val, a.ttl)
      [] a.mode = "KEEPTTL" -> SetKeepTTL(s, a.key, a.val)
      [] OTHER -> SetPlain(s, a.key, a.val)

\* Promise.allSettled(rActions.map(a => a())): the commands reach Redis in
\* the order of the list.
RECURSIVE RunActions(_, _)
RunActions(s, as) ==
    IF as = << >> THEN s ELSE RunActions(RunAction(s, Head(as)), Tail(as))

\* The action a check stages when it admits: count + 1 or count + itemsCount,
\* with the TTL of the window when the counter was found at 0.
Amount(d, items) == IF d.type = "maxItemsPerTimespan" THEN items ELSE 1
Staged(d, count, items) ==
    [key |-> d.rKey, val |-> count + Amount(d, items),
     mode |-> IF d.type = "maxConcurrentJobs" THEN "SET"
              ELSE IF count = 0 THEN "PX" ELSE "KEEPTTL",
     ttl |-> d.window.timespan]

\* rActions.push(...): the check sends nothing to Redis, the store stays as
\* it is until the staged actions are run.
PushedEager(s, a) == RunAction(s, a)
Pushed(s, a) == s

\* count >= <threshold>
ExceedsStrictly(d, count) == count > d.limit.count
Exceeds(d, count) == count >= d.limit.count

buildError(d, a) ==
    [scope |-> d.scope, type |-> d.type, global |-> d.global,
     limiterId |-> LimiterId, namespace |-> a.ns, key |-> a.key,
     kind |-> a.kind, expiresIn |-> NoItems]

(***************************************************************************)
(* Initial state: a Limiter just constructed over an empty store.          *)
(***************************************************************************)
EmptyStore == [k \in {} |-> [val |-> 0, ttl |-> NoTTL]]

Scenario(inputs, par, throws, fails, maxStarts, maxTicks) ==
    [inputs |-> inputs, par |-> par, throws |-> throws, fails |-> fails,
     insts |-> 1, lease |-> 0, maxStarts |-> maxStarts, maxTicks |-> maxTicks]

InitWith(r, s, opt) ==
    /\ rules = r
    /\ lockDuration = LockDurationOf(opt)
    /\ bypassLimits = FALSE
    /\ scn = s
    /\ store = EmptyStore
    /\ locks = {}
    /\ clock = 0
    /\ starts = 0
    /\ pc = [c \in Calls |-> "idle"]
    /\ args = [c \in Calls |-> NoArgs]
    /\ idx = [c \in Calls |-> 0]
    /\ rActions = [c \in Calls |-> << >>]
    /\ err = [c \in Calls |-> NoErr]
    /\ cnt = [c \in Calls |-> 0]
    /\ waited = [c \in Calls |-> 0]
    /\ hist = [c \in Calls |-> NoHist]

(***************************************************************************)
(* exec(), one action per await.                                           *)
(***************************************************************************)
\* The slot of the next call: a free one, else that of the call that
\* exited longest ago (its outcome is forgotten).
Free(c) == pc[c] \in Exited \cup {"idle"}
NextSlot(c) ==
    IF \E d \in Calls : pc[d] = "idle"
    THEN pc[c] = "idle" /\ \A d \in Calls : pc[d] = "idle" => c <= d
    ELSE pc[c] \in Exited /\ \A d \in Calls : pc[d] \in Exited => hist[c].ord <= hist[d].ord

\* exec(namespace, key, callback, opts) is called.
Start(c) ==
    /\ NextSlot(c)
    /\ starts < scn.maxStarts
    /\ Cardinality({d \in Calls : ~Free(d)}) < scn.par
    /\ \E a \in scn.inputs :
          args' = [args EXCEPT ![c] = a]
    /\ starts' = starts + 1
    /\ pc' = [pc EXCEPT ![c] = "acquire"]
    /\ idx' = [idx EXCEPT ![c] = 0]
    /\ rActions' = [rActions EXCEPT ![c] = << >>]
    /\ err' = [err EXCEPT ![c] = NoErr]
    /\ cnt' = [cnt EXCEPT ![c] = 0]
    /\ waited' = [waited EXCEPT ![c] = 0]
    /\ \E i \in 1..scn.insts :
          hist' = [hist EXCEPT ![c] = [ord |-> starts + 1, t0 |-> clock, tDec |-> clock,
                                        jobs |-> 0, inst |-> i, lost |-> {},
                                        bypassed |-> FALSE]]
    /\ UNCHANGED << rules, lockDuration, bypassLimits, scn, store, locks, clock >>

\* let lock = await this.redlock.acquire(keys, this.lockDuration)
Acquire(c) ==
    /\ pc[c] = "acquire"
    /\ ~Locked(keysOf(c))
    /\ locks' = locks \cup {Lock(c, This(c).lockDuration)}
    /\ rActions' = [rActions EXCEPT ![c] = << >>]
    /\ idx' = [idx EXCEPT ![c] = 1]
    /\ pc' = [pc EXCEPT ![c] = IF checksOf(c) = << >> THEN "commit" ELSE "check"]
    /\ waited' = [waited EXCEPT ![c] = 0]
    /\ UNCHANGED << rules, lockDuration, bypassLimits, scn, store, clock, starts, args, err, cnt, hist >>

\* ... the acquisition is still refused when the retry window is over:
\* acquire() rejects and so does exec().
AcquireFail(c) ==
    /\ pc[c] = "acquire"
    /\ Locked(keysOf(c))
    /\ waited[c] >= RetryWindow
    /\ pc' = [pc EXCEPT ![c] = "acquireError"]
    /\ UNCHANGED << rules, lockDuration, bypassLimits, scn, store, locks, clock, starts, args, idx,
                    rActions, err, cnt, waited, hist >>

\* A check that returns nothing is followed by the next check; the staged
\* actions are run after the last one.
AfterFirstCheck(last) == "commit"
AfterCheck(last) == IF last THEN "commit" ELSE "check"

\* err = await this.check...(rActions, namespace, key, ...): the next check
\* whose rule is configured reads its counter and rejects or stages.
\* if (err) return [null, err]: a check that built an error ends exec(); a
\* timed check still awaits getExpiresIn for the error it returns.
AfterRejectOn(timed) == "commit"
AfterReject(timed) == IF timed THEN "expires" ELSE "rejected"

Check(c) ==
    /\ pc[c] = "check"
    /\ LET d == checksOf(c)[idx[c]]
           count == GetCount(store, d.rKey)
           timed == d.type # "maxConcurrentJobs"
           last == idx[c] = Len(checksOf(c))
       IN  /\ hist' = [hist EXCEPT ![c].tDec = IF Exceeds(d, count) /\ d.limit.def /\ ~timed
                                               THEN clock ELSE @]
           /\ IF ~d.limit.def
              THEN \* reading .count of undefined
                   /\ pc' = [pc EXCEPT ![c] = "typeError"]
                   /\ locks' = Abandoned(c)
                   /\ UNCHANGED << err, rActions, idx >>
              ELSE IF Exceeds(d, count)
              THEN /\ err' = [err EXCEPT ![c] = buildError(d, args[c])]
                   /\ pc' = [pc EXCEPT ![c] = AfterReject(timed)]
                   /\ locks' = IF timed THEN locks ELSE Abandoned(c)
                   /\ UNCHANGED << rActions, idx >>
              ELSE IF timed /\ ~d.window.def
              THEN \* reading .timespan of undefined
                   /\ pc' = [pc EXCEPT ![c] = "typeError"]
                   /\ locks' = Abandoned(c)
                   /\ UNCHANGED << err, rActions, idx >>
              ELSE /\ rActions' = [rActions EXCEPT
                                     ![c] = Append(@, Staged(d, count, args[c].items))]
                   /\ idx' = [idx EXCEPT ![c] = @ + 1]
                   /\ pc' = [pc EXCEPT ![c] = AfterCheck(last)]
                   /\ UNCHANGED << err, locks >>
           /\ store' = IF d.limit.def /\ ~Exceeds(d, count) /\ (timed => d.window.def)
                       THEN Pushed(store, Staged(d, count, args[c].items))
                       ELSE store
    /\ UNCHANGED << rules, lockDuration, bypassLimits, scn, clock, starts, args, cnt, waited >>

\* expiresIn: await this.getExpiresIn(rKey); return [null, err]
Expires(c) ==
    /\ pc[c] = "expires"
    /\ err' = [err EXCEPT ![c].expiresIn = getExpiresIn(store, checksOf(c)[idx[c]].rKey)]
    /\ pc' = [pc EXCEPT ![c] = "rejected"]
    /\ locks' = Abandoned(c)
    /\ hist' = [hist EXCEPT ![c].tDec = clock]
    /\ UNCHANGED << rules, lockDuration, bypassLimits, scn, store, clock, starts, args, idx,
                    rActions, cnt, waited >>

\* await Promise.allSettled(rActions.map(a => a()))
\* Promise.allSettled waits for every staged action and ignores the ones
\* that reject: lost are the positions of the writes that failed.
RECURSIVE Settled(_, _)
Settled(as, lost) ==
    IF as = << >> THEN << >>
    ELSE Settled(SubSeq(as, 1, Len(as) - 1), lost)
         \o (IF Len(as) \in lost THEN << >> ELSE << as[Len(as)] >>)
AfterCommitAll(lost) == IF lost = {} THEN "release" ELSE "storeError"
AfterCommit(lost) == "release"

Commit(c) ==
    /\ pc[c] = "commit"
    /\ \E lost \in (IF scn.fails THEN SUBSET DOMAIN rActions[c] ELSE {{}}) :
          /\ store' = RunActions(store, Settled(rActions[c], lost))
          /\ pc' = [pc EXCEPT ![c] = AfterCommit(lost)]
          /\ hist' = [hist EXCEPT ![c].tDec = clock, ![c].lost = lost]
    /\ UNCHANGED << rules, lockDuration, bypassLimits, scn, locks, clock, starts, args, idx,
                    rActions, err, cnt, waited >>

\* await lock.release(); the callback is called
Release(c) ==
    /\ pc[c] = "release"
    /\ locks' = Released(c)
    /\ pc' = [pc EXCEPT ![c] = "job"]
    /\ hist' = [hist EXCEPT ![c].jobs = @ + 1]
    /\ UNCHANGED << rules, lockDuration, bypassLimits, scn, store, clock, starts, args, idx,
                    rActions, err, cnt, waited >>

\* const result = await callback(): the job resolves
JobReturn(c) ==
    /\ pc[c] = "job"
    /\ pc' = [pc EXCEPT ![c] = "reacquire"]
    /\ waited' = [waited EXCEPT ![c] = 0]
    /\ UNCHANGED << rules, lockDuration, bypassLimits, scn, store, locks, clock, starts, args, idx,
                    rActions, err, cnt, hist >>

\* ... or the job rejects: exec() rejects with the job's error at once
JobThrow(c) ==
    /\ pc[c] = "job"
    /\ scn.throws
    /\ pc' = [pc EXCEPT ![c] = "jobError"]
    /\ UNCHANGED << rules, lockDuration, bypassLimits, scn, store, locks, clock, starts, args, idx,
                    rActions, err, cnt, waited, hist >>

\* lock = await this.redlock.acquire(keys, 5000)
Reacquire(c) ==
    /\ pc[c] = "reacquire"
    /\ ~Locked(keysOf(c))
    /\ locks' = locks \cup {Lock(c, ReleaseLockDuration)}
    /\ idx' = [idx EXCEPT ![c] = 1]
    /\ pc' = [pc EXCEPT ![c] = IF unregsOf(c) = << >> THEN "release2" ELSE "unregGet"]
    /\ waited' = [waited EXCEPT ![c] = 0]
    /\ UNCHANGED << rules, lockDuration, bypassLimits, scn, store, clock, starts, args, rActions,
                    err, cnt, hist >>

ReacquireFail(c) ==
    /\ pc[c] = "reacquire"
    /\ Locked(keysOf(c))
    /\ waited[c] >= RetryWindow
    /\ pc' = [pc EXCEPT ![c] = "reacquireError"]
    /\ UNCHANGED << rules, lockDuration, bypassLimits, scn, store, locks, clock, starts, args, idx,
                    rActions, err, cnt, waited, hist >>

\* unregister...: const count = parseInt(await this.redis.get(rKey) || "0")
UnregGet(c) ==
    /\ pc[c] = "unregGet"
    /\ cnt' = [cnt EXCEPT ![c] = GetCount(store, unregsOf(c)[idx[c]].rKey)]
    /\ pc' = [pc EXCEPT ![c] = "unregSet"]
    /\ UNCHANGED << rules, lockDuration, bypassLimits, scn, store, locks, clock, starts, args, idx,
                    rActions, err, waited, hist >>

\* count == 0 ? 0 : count - 1
DecrementedBlind(count) == count - 1
Decremented(count) == IF count = 0 THEN 0 ELSE count - 1

\* await this.redis.set(rKey, count == 0 ? 0 : count - 1)
UnregSet(c) ==
    /\ pc[c] = "unregSet"
    /\ store' = SetPlain(store, unregsOf(c)[idx[c]].rKey, Decremented(cnt[c]))
    /\ idx' = [idx EXCEPT ![c] = @ + 1]
    /\ pc' = [pc EXCEPT ![c] = IF idx[c] = Len(unregsOf(c)) THEN "release2" ELSE "unregGet"]
    /\ UNCHANGED << rules, lockDuration, bypassLimits, scn, locks, clock, starts, args,
                    rActions, err, cnt, waited, hist >>

\* await this.redis.get(rKey) / pttl(rKey) / set(rKey, ...) rejects (the
\* connection to Redis is lost): nothing catches it, exec() rejects with the
\* client's error and the lock it holds is left to expire.
StoreFail(c) ==
    /\ scn.fails
    /\ pc[c] \in {"check", "expires", "unregGet", "unregSet"}
    /\ pc' = [pc EXCEPT ![c] = "storeError"]
    /\ locks' = Abandoned(c)
    /\ UNCHANGED << rules, lockDuration, bypassLimits, scn, store, clock, starts, args, idx,
                    rActions, err, cnt, waited, hist >>

\* await lock.release(); return [result, null]
Release2(c) ==
    /\ pc[c] = "release2"
    /\ locks' = Released(c)
    /\ pc' = [pc EXCEPT ![c] = "done"]
    /\ UNCHANGED << rules, lockDuration, bypassLimits, scn, store, clock, starts, args, idx,
                    rActions, err, cnt, waited, hist >>

(***************************************************************************)
(* Time.  Quantum ms pass: counters and locks age and expire, and a call   *)
(* that is refused a lock has retried for Quantum ms more.  Timing facts   *)
(* built in: a critical section (a few Redis round trips) sees at most one *)
(* clock step and is over before the lease of its lock runs out, so that   *)
(* a live holder never keeps a lock for a whole retry window; and the lock *)
(* client stops retrying when its retry window is over.                    *)
(***************************************************************************)
\* The lease a call's lock started with.
FullLease(c) ==
    IF pc[c] \in {"check", "expires", "commit", "release"}
    THEN This(c).lockDuration ELSE ReleaseLockDuration
Aged(s) ==
    LET live == {k \in DOMAIN s : s[k].ttl = NoTTL \/ s[k].ttl > Quantum}
    IN  [k \in live |-> IF s[k].ttl = NoTTL THEN s[k] ELSE [s[k] EXCEPT !.ttl = @ - Quantum]]

Retrying(c) == pc[c] \in {"acquire", "reacquire"} /\ Locked(keysOf(c))

Tick ==
    /\ clock < scn.maxTicks
    /\ \A l \in locks : l.holder # 0 => (l.lease > Quantum /\ l.lease = FullLease(l.holder))
    /\ \A c \in Calls : Retrying(c) => waited[c] < RetryWindow
    /\ clock' = clock + 1
    /\ store' = Aged(store)
    /\ locks' = {[l EXCEPT !.lease = @ - Quantum] : l \in {m \in locks : m.lease > Quantum}}
    /\ waited' = [c \in Calls |-> IF Retrying(c) THEN waited[c] + Quantum ELSE 0]
    /\ UNCHANGED << rules, lockDuration, bypassLimits, scn, starts, pc, args, idx, rActions, err, cnt, hist >>

(***************************************************************************)
(* Rule sets and callers.                                                  *)
(***************************************************************************)
WithConc(r, g, ks) == [r EXCEPT !.maxConcurrentJobs = [global |-> g, kinds |-> ks]]
WithJobs(r, g, ks) == [r EXCEPT !.maxJobsPerTimespan = [global |-> g, kinds |-> ks]]
WithItems(r, g, ks) == [r EXCEPT !.maxItemsPerTimespan = [global |-> g, kinds |-> ks]]

\* {namespace: {maxConcurrentJobs: {global: 1}}}
RulesNsConcGlobal ==
    [namespace |-> WithConc(NoRules, Conc(1), NoKinds), keyspace |-> NoRules]
\* {namespace: {maxConcurrentJobs: {kinds: {x: 1}}}}
RulesNsConcKind ==
    [namespace |-> WithConc(NoRules, NoRule, [NoKinds EXCEPT !["x"] = Conc(1)]),
     keyspace |-> NoRules]
\* {namespace: {maxConcurrentJobs: {global: 2}}}
RulesNsConcTwo ==
    [namespace |-> WithConc(NoRules, Conc(2), NoKinds), keyspace |-> NoRules]
\* {namespace: {maxConcurrentJobs: {global: 0}}}
RulesNsConcZero ==
    [namespace |-> WithConc(NoRules, Conc(0), NoKinds), keyspace |-> NoRules]
\* {keyspace: {maxItemsPerTimespan: {global: {count: 100, timespan: 60000},
\*                                   kinds: {x: {count: 100, timespan: 60000}}}}}
RulesKeyItemsKinds ==
    [namespace |-> NoRules,
     keyspace |-> WithItems(NoRules, Limit(100, 60000),
                            [NoKinds EXCEPT !["x"] = Limit(100, 60000)])]
\* {keyspace: {maxConcurrentJobs: {kinds: {x: 1}}}}
RulesKeyConcKind ==
    [namespace |-> NoRules,
     keyspace |-> WithConc(NoRules, NoRule, [NoKinds EXCEPT !["x"] = Conc(1)])]
\* {namespace: {maxJobsPerTimespan: {global: {count: 2, timespan: 2000}}}}
RulesNsJobsGlobal ==
    [namespace |-> WithJobs(NoRules, Limit(2, 2000), NoKinds), keyspace |-> NoRules]
\* {namespace: {maxItemsPerTimespan: {global: {count: 100, timespan: 60000}}}}
RulesNsItemsGlobal ==
    [namespace |-> WithItems(NoRules, Limit(100, 60000), NoKinds), keyspace |-> NoRules]

\* {namespace: {maxConcurrentJobs: {global: 1},
\*              maxJobsPerTimespan: {global: {count: 1, timespan: 2000}}}}
RulesNsConcJobs ==
    [namespace |-> WithJobs(WithConc(NoRules, Conc(1), NoKinds), Limit(1, 2000), NoKinds),
     keyspace |-> NoRules]

\* {namespace: {maxJobsPerTimespan: {global: {count: 5, timespan: 2000},
\*                                   kinds: {x: {count: 2, timespan: 2000}}}},
\*  keyspace:  {maxJobsPerTimespan: {global: {count: 5, timespan: 2000},
\*                                   kinds: {x: {count: 1, timespan: 2000}}}}}
RulesJobsKinds ==
    [namespace |-> WithJobs(NoRules, Limit(5, 2000), [NoKinds EXCEPT !["x"] = Limit(2, 2000)]),
     keyspace |-> WithJobs(NoRules, Limit(5, 2000), [NoKinds EXCEPT !["x"] = Limit(1, 2000)])]

\* {namespace: {maxJobsPerTimespan: {kinds: {x: {count: 1, timespan: 2000}}}}}
RulesNsJobsKind ==
    [namespace |-> WithJobs(NoRules, NoRule, [NoKinds EXCEPT !["x"] = Limit(1, 2000)]),
     keyspace |-> NoRules]

\* {}
RulesNone == [namespace |-> NoRules, keyspace |-> NoRules]

\* {namespace: {maxJobsPerTimespan: {global: {count: 1, timespan: 2000}}},
\*  keyspace:  {maxConcurrentJobs: {global: 1}}}
RulesJobsThenConc ==
    [namespace |-> WithJobs(NoRules, Limit(1, 2000), NoKinds),
     keyspace |-> WithConc(NoRules, Conc(1), NoKinds)]

Plain == { Args("n", "k1", Undefined, NoItems) }

\* Callers of one namespace and one key, without kind, whose calls overlap.
ScnSlots == Scenario(Plain, MaxPar, FALSE, FALSE, ParStarts, MaxTicks)
\* A caller that makes one call after the other.
ScnSeq == Scenario(Plain, 1, FALSE, FALSE, MaxStarts, MaxTicks)
\* ... whose jobs may throw.
ScnThrows == Scenario(Plain, 1, TRUE, FALSE, MaxStarts, MaxTicks)
\* ... whose jobs are of kind "x".
ScnKind ==
    Scenario({Args("n", "k1", "x", NoItems)}, 1, FALSE, FALSE, MaxStarts, MaxTicks)
\* ... whose jobs handle 60 or 50 items.
ScnItems ==
    Scenario({Args("n", "k1", Undefined, 60), Args("n", "k1", Undefined, 50)},
             1, FALSE, FALSE, MaxStarts, MaxTicks)
\* Callers with different keys and kinds, whose calls overlap.
ScnRace ==
    Scenario({Args("n", "k1", "x", NoItems), Args("n", "k2", "y", NoItems)},
             MaxPar, FALSE, FALSE, RaceStarts, RaceTicks)
\* ... and who make one call more.
ScnStale ==
    Scenario({Args("n", "k1", "x", NoItems), Args("n", "k2", "y", NoItems)},
             MaxPar, FALSE, FALSE, ParStarts, RaceTicks)
\* A caller that makes one call after the other, of kind "x", with key "k1"
\* or "k2".
ScnKeys ==
    Scenario({Args("n", "k1", "x", NoItems), Args("n", "k2", "x", NoItems)},
             1, FALSE, FALSE, ParStarts, RaceTicks)
\* A caller that makes one call after the other, each on any of several
\* Limiter instances.
ScnShared ==
    [Scenario(Plain, 1, FALSE, FALSE, ParStarts, WaitTicks) EXCEPT !.insts = NumInstances]
\* Callers whose calls overlap, with and without kind and items.
ScnMixed ==
    Scenario({Args("n", "k1", Undefined, NoItems), Args("n", "k1", "x", 60)},
             MaxPar, FALSE, FALSE, RaceStarts, WaitTicks)
\* Callers of one namespace and one key whose calls overlap, a few calls.
ScnPair == Scenario(Plain, MaxPar, FALSE, FALSE, RaceStarts, RaceTicks)
\* A caller whose jobs handle items, for the key "k1" with kind "x" or for
\* the key "k1x" with no kind.
ScnGlued ==
    Scenario({Args("n", "k1", "x", 50), Args("n", "k1x", Undefined, 60)},
             1, FALSE, FALSE, RaceStarts, RaceTicks)
\* A caller that makes one call after the other while the connection to
\* Redis may fail.
ScnFails == Scenario(Plain, 1, FALSE, TRUE, RaceStarts, MaxTicks)
\* Callers of a Limiter constructed with {lockDuration: 3000}.
ConfiguredLockDuration == 3 * Quantum
ScnLease == [ScnPair EXCEPT !.lease = ConfiguredLockDuration]
\* Callers whose calls overlap while the connection to Redis may fail.
ScnLossy == Scenario(Plain, MaxPar, FALSE, TRUE, RaceStarts, RaceTicks)

Setups ==
    { << RulesNsConcGlobal, ScnSlots >>,
      << RulesNsConcGlobal, ScnThrows >>,
      << RulesNsConcKind, ScnKind >>,
      << RulesNsJobsGlobal, ScnSeq >>,
      << RulesNsConcJobs, ScnSeq >>,
      << RulesNsItemsGlobal, ScnItems >>,
      << RulesNsConcGlobal, ScnRace >>,
      << RulesNsConcJobs, ScnFails >>,
      << RulesJobsKinds, ScnKeys >>,
      << RulesNsJobsKind, ScnKind >>,
      << RulesNsJobsGlobal, ScnShared >>,
      << RulesNone, ScnMixed >>,
      << RulesJobsThenConc, ScnPair >>,
      << RulesKeyConcKind, ScnKind >>,
      << RulesNsJobsGlobal, ScnStale >>,
      << RulesNsConcZero, ScnPair >>,
      << RulesKeyItemsKinds, ScnGlued >>,
      << RulesNsConcTwo, ScnLossy >>,
      << RulesNsConcGlobal, ScnLease >> }

Init == \E su \in Setups : InitWith(su[1], su[2], su[2].lease)

Next ==
    \/ \E c \in Calls :
          \/ Start(c) \/ Acquire(c) \/ AcquireFail(c) \/ Check(c) \/ Expires(c)
          \/ Commit(c) \/ Release(c) \/ JobReturn(c) \/ JobThrow(c)
          \/ Reacquire(c) \/ ReacquireFail(c) \/ UnregGet(c) \/ UnregSet(c)
          \/ Release2(c) \/ StoreFail(c)
    \/ Tick

Spec == Init /\ [][Next]_vars

(***************************************************************************)
(* Properties.                                                             *)
(***************************************************************************)
\* Past the commit of its increments and before the first decrement.
PastAdmission == {"release", "job", "reacquire"}
\* Admitted, and exec() has not exited yet.
InFlight == PastAdmission \cup {"unregGet", "unregSet", "release2"}

SameNs(c, d) == args[c].ns = args[d].ns
SameKey(c, d) == SameNs(c, d) /\ args[c].key = args[d].key
SameKind(c, d) == args[c].kind = args[d].kind

Holding(c, Same(_, _)) ==
    Cardinality({d \in Calls : pc[d] \in PastAdmission /\ Same(c, d)})

SameNsKind(c, d) == SameNs(c, d) /\ SameKind(c, d)
SameKeyKind(c, d) == SameKey(c, d) /\ SameKind(c, d)

\* C1: for every configured maxConcurrentJobs threshold T (namespace or
\* keyspace, global or of a kind), at most T of the calls the rule counts
\* are past admission and before release.
C1_ConcurrencyCeiling ==
    \A c \in Calls :
        pc[c] \in PastAdmission =>
            /\ rules.namespace.maxConcurrentJobs.global.def =>
                   Holding(c, SameNs) <= rules.namespace.maxConcurrentJobs.global.count
            /\ rules.keyspace.maxConcurrentJobs.global.def =>
                   Holding(c, SameKey) <= rules.keyspace.maxConcurrentJobs.global.count
            /\ KindRule(rules.namespace.maxConcurrentJobs, args[c].kind).def =>
                   Holding(c, SameNsKind)
                       <= KindRule(rules.namespace.maxConcurrentJobs, args[c].kind).count
            /\ KindRule(rules.keyspace.maxConcurrentJobs, args[c].kind).def =>
                   Holding(c, SameKeyKind)
                       <= KindRule(rules.keyspace.maxConcurrentJobs, args[c].kind).count

\* The counters a call has read and found below their thresholds.
PassedKeys(c) == {rActions[c][i].key : i \in 1..Len(rActions[c])}
CheckAndCommit == {"check", "expires", "commit"}

\* C2: the check-and-commit sections of two calls that read the same
\* counter do not interleave: two calls are never both inside the section
\* having both found the same counter below its threshold.
C2_SectionsExclusive ==
    \A c, d \in Calls :
        (c # d /\ pc[c] \in CheckAndCommit /\ pc[d] \in CheckAndCommit)
            => PassedKeys(c) \cap PassedKeys(d) = {}

\* C3: under a namespace-global maxConcurrentJobs threshold T, a call is
\* rejected (with type maxConcurrentJobs) when T admitted calls of the
\* namespace are running, and a call is turned away (rejected, or refused
\* the lock) only while T admitted calls have not completed.
NsConcT == rules.namespace.maxConcurrentJobs.global.count
Running(c) == Cardinality({d \in Calls : pc[d] = "job" /\ SameNs(c, d)})
Uncompleted(c) == Cardinality({d \in Calls : pc[d] \in InFlight /\ SameNs(c, d)})
TurnedAway(c) ==
    /\ pc[c] \in {"acquire", "check"}
    /\ pc'[c] \in {"rejected", "acquireError"}
C3_RejectedIffFull ==
    [][ (rules = RulesNsConcGlobal /\ scn = ScnSlots) =>
          \A c \in Calls :
             /\ (pc[c] = "check" /\ pc'[c] # "check" /\ Running(c) >= NsConcT)
                   => (pc'[c] = "rejected" /\ err'[c].type = "maxConcurrentJobs")
             /\ TurnedAway(c) => Uncompleted(c) >= NsConcT ]_vars

\* C4: under a namespace-global maxJobsPerTimespan rule (count C, timespan
\* W) and a store that starts empty, the first C calls of a sequential
\* caller are admitted, and the (C+1)th, when it is decided before the
\* window opened by the first admission has expired, is rejected with
\* scope namespace, type maxJobsPerTimespan, global true and an expiresIn
\* between 0 and W.
NsJobs == rules.namespace.maxJobsPerTimespan.global
Ms(t) == t * Quantum
C4_Case == rules = RulesNsJobsGlobal /\ scn = ScnSeq
C4_Rejection(c) ==
    /\ pc[c] = "rejected"
    /\ err[c].scope = "namespace"
    /\ err[c].type = "maxJobsPerTimespan"
    /\ err[c].global
    /\ err[c].expiresIn >= 0
    /\ err[c].expiresIn <= NsJobs.timespan
C4_FirstWindow ==
    C4_Case =>
        \A c \in Calls :
            /\ (pc[c] \in Exited /\ hist[c].ord \in 1..NsJobs.count) => pc[c] = "done"
            /\ \A f \in Calls :
                  ( /\ pc[c] \in Exited
                    /\ hist[c].ord = NsJobs.count + 1
                    /\ hist[f].ord = 1
                    /\ Ms(hist[c].tDec) < Ms(hist[f].tDec) + NsJobs.timespan )
                  => C4_Rejection(c)
\* The first calls have been admitted, and the next one has been rejected
\* inside the window with time left.
C4_Witness ==
    /\ C4_Case
    /\ \E c, f \in Calls :
          /\ hist[f].ord = 1 /\ pc[f] = "done"
          /\ hist[c].ord = NsJobs.count + 1
          /\ Ms(hist[c].tDec) < Ms(hist[f].tDec) + NsJobs.timespan
          /\ C4_Rejection(c)
          /\ err[c].expiresIn > 0

\* C5: under a maxJobsPerTimespan rule (count C, timespan W), any interval
\* of length W, wherever it starts, holds at most C admissions of calls the
\* rule counts (here: the namespace-global rule, intervals that start at an
\* admission).
Admitted(c) == pc[c] \in InFlight \cup {"done", "jobError", "reacquireError"}
AdmittedWithin(c, w) ==
    {d \in Calls : /\ Admitted(d) /\ SameNs(c, d)
                   /\ Ms(hist[d].tDec) >= Ms(hist[c].tDec)
                   /\ Ms(hist[d].tDec) < Ms(hist[c].tDec) + w}
TimedRejection(r) ==
    /\ pc[r] = "rejected"
    /\ err[r].type \in {"maxJobsPerTimespan", "maxItemsPerTimespan"}
C6_WindowReset ==
    \A r, c \in Calls :
        ( /\ TimedRejection(r)
          /\ hist[c].ord = hist[r].ord + 1
          /\ args[c] = args[r]
          /\ Ms(hist[c].t0) >= Ms(hist[r].tDec) + err[r].expiresIn
          /\ scn.par = 1 )
        => pc[c] \notin {"rejected", "acquireError"}

\* C7: under a maxItemsPerTimespan rule with threshold C a call whose
\* itemCount would take the items of the window past C is rejected, so the
\* items counter never exceeds C.
NsItems == rules.namespace.maxItemsPerTimespan.global
KeyItems == rules.keyspace.maxItemsPerTimespan.global
C7_ItemsCeiling ==
    \A a \in scn.inputs :
        /\ NsItems.def =>
              GetCount(store, MaxItemsNamespaceKey(a.ns, Undefined)) <= NsItems.count
        /\ KeyItems.def =>
              GetCount(store, MaxItemsKeyspaceKey(a.ns, a.key, Undefined)) <= KeyItems.count

\* C8: whatever the rules, once an admitted call whose job returned normally
\* has returned and no call is in flight, every concurrency counter
\* (namespace-global, keyspace-global, namespace-kind, keyspace-kind) is back
\* at the value it had before the call, which is 0 in an empty store.
ConcurrencyKeys ==
    UNION {{MaxConcNamespaceKey(a.ns, Undefined),
            MaxConcKeyspaceKey(a.ns, a.key, Undefined),
            MaxConcNamespaceKey(a.ns, a.kind),
            MaxConcKeyspaceKey(a.ns, a.key, a.kind)} : a \in scn.inputs}
SlotsFree == \A k \in ConcurrencyKeys : GetCount(store, k) = 0
C8_RoundTrip ==
    ( /\ \A c \in Calls : pc[c] \in {"idle", "done"}
      /\ \E c \in Calls : pc[c] = "done" )
    => SlotsFree

\* C9: when the job of an admitted call throws, the error reaches the caller
\* and the concurrency counters the call incremented are decremented all the
\* same: with no other call in flight, no slot stays occupied.
C9_FailureReleases ==
    ( /\ \A c \in Calls : pc[c] \in {"idle", "done", "jobError"}
      /\ \E c \in Calls : pc[c] = "jobError" )
    => SlotsFree

\* C10: a rejected call mutates no counter: no step of a call from its start
\* up to its rejection (the acquire, every check, passed or rejecting, and
\* the read of expiresIn) changes the value or the time-to-live of any
\* counter in the store.
BeforeCommit ==
    {"acquire", "check", "expires", "commit", "rejected", "acquireError", "typeError"}
CallStep(c) == pc'[c] # pc[c] \/ idx'[c] # idx[c]
C10_RejectionMutatesNothing ==
    [][\A c \in Calls :
          (CallStep(c) /\ pc'[c] \in BeforeCommit) => store' = store]_vars

\* A call rejected after an earlier check of the same call had passed and
\* staged its write.
C10_Witness ==
    \E c \in Calls : pc[c] = "rejected" /\ Len(rActions[c]) > 0

\* C11: when the checks of a call end in a rejection, the lock taken for the
\* checks is released before exec returns: at the return of the rejected
\* call no lock names any of its keys, so that a call on an overlapping key
\* set can take the lock at once.
C11_RejectionReleasesLock ==
    [][\A c \in Calls :
          (pc[c] # "rejected" /\ pc'[c] = "rejected") => ~Locked(keysOf(c))']_vars

\* C12: on every exceptional exit of exec (a Redis command failing during
\* the checks, the job failing, a Redis command failing during the release
\* of the slots) no lock acquired by the call remains: the keys of every
\* lock the call held are unlocked when exec exits.
Exceptional == {"storeError", "typeError", "jobError"}
C12_ThrowReleasesLock ==
    [][\A c \in Calls :
          (pc[c] \notin Exceptional /\ pc'[c] \in Exceptional)
          => \A l \in locks : l.holder = c => ~Locked(l.keys)']_vars

\* The pair exec() resolves to: return [null, err] for a rejection,
\* return [result, null] after the job; the result is the job's own value.
Null == "<null>"
JobResult == "<result>"
ReturnBoth(c) == [result |-> JobResult, error |-> err[c]]
Return(c) ==
    IF pc[c] = "rejected"
    THEN [result |-> Null, error |-> err[c]]
    ELSE [result |-> JobResult, error |-> NoErr]

Invoked(c) == hist[c].jobs > 0
C14_JobOnlyOnAdmission ==
    \A c \in Calls :
        /\ hist[c].jobs <= 1
        /\ Invoked(c) =>
              /\ Len(rActions[c]) = Len(checksOf(c))
              /\ pc[c] \in InFlight \cup {"done", "jobError", "reacquireError", "storeError"}
        /\ pc[c] \in {"rejected", "acquireError", "typeError"} => ~Invoked(c)
        /\ (pc[c] = "storeError" /\ Len(rActions[c]) < Len(checksOf(c))) => ~Invoked(c)

\* A call admitted by two checks has had its job invoked, a call of the same
\* caller was rejected and another was refused the lock.
C14_Witness ==
    /\ \E c \in Calls : Invoked(c) /\ Len(checksOf(c)) = 2
    /\ \E c \in Calls : pc[c] = "rejected"
    /\ \E c \in Calls : pc[c] = "acquireError"

\* C15: a coordination failure (the lock of the check phase is refused, or
\* a Redis read fails during the checks) makes exec fail with an error and
\* not return a rejection pair; the job of the call has not run, and no step
\* of the call up to the failure has changed a counter.
CheckPhase == {"acquire", "check", "expires"}
CoordinationError == {"acquireError", "storeError"}
C15_CoordinationFailure ==
    [][\A c \in Calls :
          (pc[c] \in CheckPhase /\ CallStep(c)) =>
              /\ store' = store
              /\ pc'[c] \in CoordinationError =>
                    /\ pc'[c] \in Thrown /\ pc'[c] \notin Returned
                    /\ hist'[c].jobs = 0]_vars

\* A call failed on a Redis read after one of its checks had staged a
\* write, and the next call was refused the lock.
C15_Witness ==
    \E c, d \in Calls :
        /\ pc[c] = "storeError" /\ hist[c].jobs = 0 /\ Len(rActions[c]) = 1
        /\ pc[d] = "acquireError"

(***************************************************************************)
(* Key derivation on its own: calls with arguments drawn from strings that *)
(* contain '-' and the text 'undefined'; each call derives the counter key *)
(* of every check function of exec().                                      *)
(***************************************************************************)
KeyStrings == {"n", "n-k1"}
KeyKeys == {"k1", "k2"}
KeyKinds == {"x", "undefined"}
KeyInputs == {Args(ns, key, kind, 1) : ns \in KeyStrings, key \in KeyKeys, kind \in KeyKinds}

InitKeys ==
    /\ rules = [namespace |-> NoRules, keyspace |-> NoRules]
    /\ lockDuration = LockDurationOf(0)
    /\ bypassLimits = FALSE
    /\ scn = Scenario(KeyInputs, 1, FALSE, FALSE, 0, 0)
    /\ store = EmptyStore
    /\ locks = {}
    /\ clock = 0
    /\ starts = 0
    /\ pc = [c \in Calls |-> "idle"]
    /\ args \in [Calls -> KeyInputs]
    /\ idx = [c \in Calls |-> 0]
    /\ rActions = [c \in Calls |-> << >>]
    /\ err = [c \in Calls |-> NoErr]
    /\ cnt = [c \in Calls |-> 0]
    /\ waited = [c \in Calls |-> 0]
    /\ hist = [c \in Calls |-> [NoHist EXCEPT !.inst = ((c - 1) % NumInstances) + 1]]

\* The key a generator returns on the instance of call c: a template literal
\* over this.id and the arguments, nothing else.
DerivedSalted(c, k) == IF hist[c].inst = 1 THEN k ELSE k \o "-other"
Derived(c, k) == k

\* const rKey = this.keyGenerators...(...) in each check function, in the
\* order of exec().
DeriveKeys(c) ==
    /\ pc[c] = "idle"
    /\ LET ds == execChecks(rules, args[c].ns, args[c].key, args[c].kind, args[c].items)
       IN  rActions' = [rActions EXCEPT
                          ![c] = [i \in DOMAIN ds |->
                                    [Staged(ds[i], 0, args[c].items)
                                       EXCEPT !.key = Derived(c, @)]]]
    /\ pc' = [pc EXCEPT ![c] = "derived"]
    /\ UNCHANGED << rules, lockDuration, bypassLimits, scn, store, locks, clock, starts, args, idx,
                    err, cnt, waited, hist >>

NextKeys == \E c \in Calls : DeriveKeys(c)

SpecKeys == InitKeys /\ [][NextKeys]_vars

\* The limit identity each check function of exec() stands for, in the
\* order of exec(): scope, limit type, global or kind-specific.
CheckIdentities ==
    << <<"namespace", "maxConcurrentJobs", TRUE>>,
       <<"namespace", "maxJobsPerTimespan", TRUE>>,
       <<"key", "maxConcurrentJobs", TRUE>>,
       <<"key", "maxJobsPerTimespan", TRUE>>,
       <<"namespace", "maxItemsPerTimespan", TRUE>>,
       <<"key", "maxItemsPerTimespan", TRUE>>,
       <<"namespace", "maxItemsPerTimespan", FALSE>>,
       <<"key", "maxItemsPerTimespan", FALSE>>,
       <<"key", "maxJobsPerTimespan", FALSE>>,
       <<"key", "maxConcurrentJobs", FALSE>>,
       <<"namespace", "maxConcurrentJobs", FALSE>>,
       <<"namespace", "maxJobsPerTimespan", FALSE>> >>
Identity(i, a) ==
    [limiterId |-> LimiterId,
     scope |-> CheckIdentities[i][1],
     type |-> CheckIdentities[i][2],
     namespace |-> a.ns,
     key |-> IF CheckIdentities[i][1] = "key" THEN a.key ELSE "",
     kind |-> IF CheckIdentities[i][3] THEN Undefined ELSE a.kind]

\* C16: key derivation is injective: two limit identities (limiter id,
\* scope, limit type, namespace, key, kind) that differ in a field have
\* different counter keys in the check functions.
C16_KeysInjective ==
    \A c, d \in Calls :
        (pc[c] = "derived" /\ pc[d] = "derived") =>
            \A i \in DOMAIN rActions[c], j \in DOMAIN rActions[d] :
                Identity(i, args[c]) # Identity(j, args[d])
                => rActions[c][i].key # rActions[d][j].key

\* C17: keyspace counters are per key: for every keyspace rule, no step of a
\* call with key k1 changes the counter that the keyspace checks consult for
\* a call with another key k2 of the same namespace.
KeyspaceChecks(a) ==
    {d \in { checkKeyMaxJobsPerTimespanGlobal(rules, a.ns, a.key, a.kind),
             checkKeyMaxJobsPerTimespanPerKind(rules, a.ns, a.key, a.kind),
             checkKeyMaxItemsPerTimespanGlobal(rules, a.ns, a.key, a.kind),
             checkKeyMaxItemsPerTimespanPerKind(rules, a.ns, a.key, a.kind),
             checkKeyMaxConcurrentJobsGlobal(rules, a.ns, a.key, a.kind),
             checkKeyMaxConcurrentJobsPerKind(rules, a.ns, a.key, a.kind) } : d.on}
C17_KeyspacePerKey ==
    [][\A c \in Calls, b \in scn.inputs :
          (CallStep(c) /\ args[c].ns = b.ns /\ args[c].key # b.key)
          => \A d \in KeyspaceChecks(b) :
                GetCount(store', d.rKey) = GetCount(store, d.rKey)]_vars

\* C18: a kind rule stands on its own: when of the namespace's
\* maxJobsPerTimespan only kinds[K] is configured (no global entry), a call
\* of kind K is evaluated without error against that entry, and the kind
\* counter's time-to-live is within that entry's timespan.
NsJobsKindAlone(k) ==
    /\ Truthy(k)
    /\ KindRule(rules.namespace.maxJobsPerTimespan, k).def
    /\ ~rules.namespace.maxJobsPerTimespan.global.def
C18_KindRuleAlone ==
    \A c \in Calls :
        NsJobsKindAlone(args[c].kind) =>
            /\ pc[c] # "typeError"
            /\ LET k == MaxJobsNamespaceKey(args[c].ns, args[c].kind)
               IN  k \in DOMAIN store =>
                      /\ store[k].ttl # NoTTL
                      /\ store[k].ttl <= KindRule(rules.namespace.maxJobsPerTimespan,
                                                  args[c].kind).timespan

\* C19: every rejection identifies the rule that rejected the call: scope
\* 'key' exactly when a keyspace check rejected and 'namespace' exactly when
\* a namespace check did, the limit type and the global flag of that check,
\* and the limiter id, namespace and key of the call.
RejectingCheck(c) == checksOf(c)[idx[c]]
C19_RejectionNamesRule ==
    \A c \in Calls :
        pc[c] = "rejected" =>
            /\ err[c].scope = (IF RejectingCheck(c) \in KeyspaceChecks(args[c])
                               THEN "key" ELSE "namespace")
            /\ err[c].type = RejectingCheck(c).type
            /\ err[c].global = RejectingCheck(c).global
            /\ err[c].limiterId = LimiterId
            /\ err[c].namespace = args[c].ns
            /\ err[c].key = args[c].key

\* C20: a rejection by a maxConcurrentJobs rule carries no expiresIn; a
\* rejection by a jobs- or items-per-timespan rule carries the remaining
\* time-to-live of the rejecting counter, or 0 when the counter has no
\* time-to-live or is gone; the call returns the rejection in that case too.
C20_ExpiresIn ==
    [][\A c \in Calls :
          /\ (pc[c] # "rejected" /\ pc'[c] = "rejected") =>
                LET k == RejectingCheck(c).rKey
                IN  IF err'[c].type = "maxConcurrentJobs"
                    THEN err'[c].expiresIn = NoErr.expiresIn
                    ELSE /\ pc[c] = "expires"
                         /\ err'[c].expiresIn =
                               (IF k \in DOMAIN store /\ store[k].ttl # NoTTL
                                THEN store[k].ttl ELSE 0)
          /\ pc[c] = "expires" => pc'[c] \in {"expires", "rejected", "storeError"}]_vars

\* A call was rejected by a per-timespan rule whose counter has lost its
\* time-to-live, and reports expiresIn 0.
C20_Witness ==
    \E c \in Calls :
        /\ pc[c] = "rejected" /\ err[c].type = "maxJobsPerTimespan"
        /\ err[c].expiresIn = 0
        /\ Pttl(store, RejectingCheck(c).rKey) = NoTTL

\* C21: Limiter instances over one Redis, with the same id and rules, act as
\* one: whatever instance each call of a sequence is made on, every call
\* runs the checks of the one rule set, the jobs counter holds the
\* admissions of all instances in its window, and a call is rejected only
\* when the earlier admissions, of all instances together, have reached the
\* threshold, as on a single instance.
Shared == scn.insts > 1 /\ NsJobs.def
SharedKey == MaxJobsNamespaceKey("n", "n")
WindowStart == Ms(clock) - (NsJobs.timespan - store[SharedKey].ttl)
Unruled == rules = RulesNone
C23_NoRulesNoLimits ==
    Unruled =>
        /\ store = EmptyStore
        /\ \A c \in Calls :
              /\ pc[c] \notin Thrown \cup {"rejected"}
              /\ pc[c] = "done" =>
                    /\ hist[c].jobs = 1
                    /\ Return(c) = [result |-> JobResult, error |-> NoErr]

\* Two calls, one of them with a kind and an item count, have returned.
C23_Witness ==
    /\ Unruled
    /\ \E c, d \in Calls :
          /\ pc[c] = "done" /\ pc[d] = "done"
          /\ args[c].kind = Undefined /\ args[d].kind = "x"

\* The twelve checks of a call: in the order of the specification
\* (concurrency, then jobs per timespan, then items per timespan, each
\* namespace-global, keyspace-global, namespace-kind, keyspace-kind), and in
\* the order of exec() (global checks, item checks, kind checks).
TypeOrder(c) ==
    LET r == This(c).rules
        a == args[c]
    IN  << checkNamespaceMaxConcurrentJobsGlobal(r, a.ns, a.key, a.kind),
           checkKeyMaxConcurrentJobsGlobal(r, a.ns, a.key, a.kind),
           checkNamespaceMaxConcurrentJobsPerKind(r, a.ns, a.key, a.kind),
           checkKeyMaxConcurrentJobsPerKind(r, a.ns, a.key, a.kind),
           checkNamespaceMaxJobsPerTimespanGlobal(r, a.ns, a.key, a.kind),
           checkKeyMaxJobsPerTimespanGlobal(r, a.ns, a.key, a.kind),
           checkNamespaceMaxJobsPerTimespanPerKind(r, a.ns, a.key, a.kind),
           checkKeyMaxJobsPerTimespanPerKind(r, a.ns, a.key, a.kind),
           checkNamespaceMaxItemsPerTimespanGlobal(r, a.ns, a.key, a.kind),
           checkKeyMaxItemsPerTimespanGlobal(r, a.ns, a.key, a.kind),
           checkNamespaceMaxItemsPerTimespanPerKind(r, a.ns, a.key, a.kind),
           checkKeyMaxItemsPerTimespanPerKind(r, a.ns, a.key, a.kind) >>
GroupOrder(c) ==
    LET r == This(c).rules
        a == args[c]
    IN  << checkNamespaceMaxConcurrentJobsGlobal(r, a.ns, a.key, a.kind),
           checkNamespaceMaxJobsPerTimespanGlobal(r, a.ns, a.key, a.kind),
           checkKeyMaxConcurrentJobsGlobal(r, a.ns, a.key, a.kind),
           checkKeyMaxJobsPerTimespanGlobal(r, a.ns, a.key, a.kind),
           checkNamespaceMaxItemsPerTimespanGlobal(r, a.ns, a.key, a.kind),
           checkKeyMaxItemsPerTimespanGlobal(r, a.ns, a.key, a.kind),
           checkNamespaceMaxItemsPerTimespanPerKind(r, a.ns, a.key, a.kind),
           checkKeyMaxItemsPerTimespanPerKind(r, a.ns, a.key, a.kind),
           checkKeyMaxJobsPerTimespanPerKind(r, a.ns, a.key, a.kind),
           checkKeyMaxConcurrentJobsPerKind(r, a.ns, a.key, a.kind),
           checkNamespaceMaxConcurrentJobsPerKind(r, a.ns, a.key, a.kind),
           checkNamespaceMaxJobsPerTimespanPerKind(r, a.ns, a.key, a.kind) >>
\* The check applies to the call (its kind, its items) and its rule is
\* configured.
Applies(c, e) ==
    /\ e.on
    /\ \E i \in DOMAIN checksOf(c) : checksOf(c)[i] = e
AtThreshold(e) == e.limit.def /\ Exceeds(e, GetCount(store, e.rKey))
Precedes(O, e, d) == \E i, j \in DOMAIN O : i < j /\ O[i] = e /\ O[j] = d
Rejects(c) == pc[c] = "check" /\ pc'[c] \in {"rejected", "expires"}
HasPassed(c, e) == \E j \in DOMAIN rActions[c] : rActions[c][j].key = e.rKey

\* C24: the checks have a fixed order, concurrency first, then jobs per
\* timespan, then items per timespan, each namespace-global,
\* keyspace-global, namespace-kind, keyspace-kind: when several configured
\* rules are at their threshold, the rejection is that of the first of them
\* in this order.
C24_TypeOrder ==
    [][\A c \in Calls :
          Rejects(c) =>
              \A e \in {TypeOrder(c)[i] : i \in DOMAIN TypeOrder(c)} :
                  (Applies(c, e) /\ AtThreshold(e))
                  => ~Precedes(TypeOrder(c), e, RejectingCheck(c))]_vars

\* C24, amended: the checks have a fixed order, that of exec(): the four
\* global checks (namespace concurrency, namespace jobs, keyspace
\* concurrency, keyspace jobs), then the item checks, then the kind checks
\* (keyspace jobs, keyspace concurrency, namespace concurrency, namespace
\* jobs).  A rejection is that of the first check in this order that finds
\* its counter at the threshold: every configured check before it has
\* passed, and none after it has been evaluated.
C24_GroupOrder ==
    [][\A c \in Calls :
          Rejects(c) =>
              \A e \in {GroupOrder(c)[i] : i \in DOMAIN GroupOrder(c)} :
                  Applies(c, e) =>
                      /\ Precedes(GroupOrder(c), e, RejectingCheck(c)) => HasPassed(c, e)
                      /\ Precedes(GroupOrder(c), RejectingCheck(c), e) => ~HasPassed(c, e)]_vars

\* A call is rejected by the namespace jobs rule while the keyspace
\* concurrency rule, evaluated after it, is at its threshold too.
C24_Witness ==
    \E c \in Calls :
        /\ pc[c] = "rejected"
        /\ RejectingCheck(c) = checkNamespaceMaxJobsPerTimespanGlobal(
                                  rules, args[c].ns, args[c].key, args[c].kind)
        /\ Applies(c, checkKeyMaxConcurrentJobsGlobal(rules, args[c].ns, args[c].key,
                                                      args[c].kind))
        /\ AtThreshold(checkKeyMaxConcurrentJobsGlobal(rules, args[c].ns, args[c].key,
                                                       args[c].kind))

\* The counter keys a call's check functions and unregister functions use,
\* whether their rules are configured or not.
CounterKeys(c) ==
    LET a == args[c]
        cs == execChecks(This(c).rules, a.ns, a.key, a.kind, a.items)
        us == resetConcurrencyLimits(This(c).rules, a.ns, a.key, a.kind)
    IN  {cs[i].rKey : i \in DOMAIN cs} \cup {us[i].rKey : i \in DOMAIN us}

\* C25: the lock of a call covers every counter key of the call: the key set
\* computed for the lock contains the key of each check function and of each
\* unregister function the call runs.
C25_LockCoversCounters ==
    \A l \in locks :
        l.holder \in Calls => CounterKeys(l.holder) \subseteq l.keys

\* The call writes its staged actions in this step.
Commits(c) == pc[c] = "commit" /\ pc'[c] = "release"
\* The checks of a call on a jobs or items counter that have passed.
TimedPassed(c) ==
    {d \in {checksOf(c)[i] : i \in DOMAIN checksOf(c)} :
        d.type # "maxConcurrentJobs" /\ HasPassed(c, d)}

\* C26: the windows are fixed.  An admission that opens a window (the
\* counter does not exist) gives the counter the rule's timespan as its
\* time to live; an admission into an open window raises the value and
\* leaves the expiry as it is, so that the window ends one timespan after
\* its first admission.
C26_FixedWindow ==
    [][\A c \in Calls :
          Commits(c) =>
              \A d \in TimedPassed(c) :
                  /\ d.rKey \in DOMAIN store'
                  /\ IF d.rKey \in DOMAIN store
                     THEN /\ store'[d.rKey].ttl = store[d.rKey].ttl
                          /\ store'[d.rKey].val > store[d.rKey].val
                     ELSE store'[d.rKey].ttl = d.limit.timespan]_vars

\* The keys of the jobs and items counters the calls made so far have checked.
TimedKeys ==
    UNION {{d.rKey : d \in {e \in {checksOf(c)[i] : i \in DOMAIN checksOf(c)} :
                              e.type # "maxConcurrentJobs"}} :
           c \in {x \in Calls : hist[x].ord > 0}}

\* C27: every jobs or items counter in the store has an expiry, in every
\* state, also when a counter expires between the read of a check and the
\* write staged by it.
C27_CountersExpire ==
    \A k \in TimedKeys \cap DOMAIN store : store[k].ttl # NoTTL

\* The rules of the rule set that apply to a call, each with the check
\* function that serves it: the global rules, the rules of the call's kind
\* if it has one, and the item rules if the call counts items.
RuleOf(lim, global, kind) == IF global THEN lim.global ELSE KindRule(lim, kind)
Serves(rule, global, d) == [rule |-> rule, global |-> global, check |-> d]
RuleChecks(c) ==
    LET r == This(c).rules
        a == args[c]
        all ==
          { Serves(RuleOf(r.namespace.maxConcurrentJobs, TRUE, a.kind), TRUE,
                   checkNamespaceMaxConcurrentJobsGlobal(r, a.ns, a.key, a.kind)),
            Serves(RuleOf(r.keyspace.maxConcurrentJobs, TRUE, a.kind), TRUE,
                   checkKeyMaxConcurrentJobsGlobal(r, a.ns, a.key, a.kind)),
            Serves(RuleOf(r.namespace.maxConcurrentJobs, FALSE, a.kind), FALSE,
                   checkNamespaceMaxConcurrentJobsPerKind(r, a.ns, a.key, a.kind)),
            Serves(RuleOf(r.keyspace.maxConcurrentJobs, FALSE, a.kind), FALSE,
                   checkKeyMaxConcurrentJobsPerKind(r, a.ns, a.key, a.kind)),
            Serves(RuleOf(r.namespace.maxJobsPerTimespan, TRUE, a.kind), TRUE,
                   checkNamespaceMaxJobsPerTimespanGlobal(r, a.ns, a.key, a.kind)),
            Serves(RuleOf(r.keyspace.maxJobsPerTimespan, TRUE, a.kind), TRUE,
                   checkKeyMaxJobsPerTimespanGlobal(r, a.ns, a.key, a.kind)),
            Serves(RuleOf(r.namespace.maxJobsPerTimespan, FALSE, a.kind), FALSE,
                   checkNamespaceMaxJobsPerTimespanPerKind(r, a.ns, a.key, a.kind)),
            Serves(RuleOf(r.keyspace.maxJobsPerTimespan, FALSE, a.kind), FALSE,
                   checkKeyMaxJobsPerTimespanPerKind(r, a.ns, a.key, a.kind)),
            Serves(RuleOf(r.namespace.maxItemsPerTimespan, TRUE, a.kind), TRUE,
                   checkNamespaceMaxItemsPerTimespanGlobal(r, a.ns, a.key, a.kind)),
            Serves(RuleOf(r.keyspace.maxItemsPerTimespan, TRUE, a.kind), TRUE,
                   checkKeyMaxItemsPerTimespanGlobal(r, a.ns, a.key, a.kind)),
            Serves(RuleOf(r.namespace.maxItemsPerTimespan, FALSE, a.kind), FALSE,
                   checkNamespaceMaxItemsPerTimespanPerKind(r, a.ns, a.key, a.kind)),
            Serves(RuleOf(r.keyspace.maxItemsPerTimespan, FALSE, a.kind), FALSE,
                   checkKeyMaxItemsPerTimespanPerKind(r, a.ns, a.key, a.kind)) }
    IN  {s \in all :
            /\ s.rule.def
            /\ s.global \/ Truthy(a.kind)
            /\ s.check.type = "maxItemsPerTimespan" => a.items # NoItems}
\* The job body of the call starts in this step.
JobStarts(c) == pc[c] # "job" /\ pc'[c] = "job"
\* The staged write of a check has reached the store: the counter holds the
\* staged value, which is at least the increment.
Applied(c, d, s) ==
    \E j \in DOMAIN rActions[c] :
        /\ rActions[c][j].key = d.rKey
        /\ rActions[c][j].val >= Amount(d, args[c].items)
        /\ d.rKey \in DOMAIN s
        /\ s[d.rKey].val = rActions[c][j].val

\* C28: on admission the increment of every configured rule that applies to
\* the call (+1 on a concurrency or jobs counter, +itemCount on an items
\* counter) is written to the store, with the call's lock still held, before
\* the lock is released and the job body starts, provided no write fails.
C28_IncrementsBeforeJob ==
    [][\A c \in Calls :
          /\ Commits(c) =>
                /\ \E l \in locks : l.holder = c
                /\ hist'[c].lost = {} =>
                      \A s \in RuleChecks(c) : Applied(c, s.check, store')
          /\ JobStarts(c) => pc[c] = "release"
          /\ pc'[c] = "release" => pc[c] \in {"commit", "release"}]_vars

\* The job body of the call is running.
InJob(c) == pc[c] = "job"
HoldsLock(c) == \E l \in locks : l.holder = c

\* C29: a call holds none of its locks while its job body runs: the check
\* lock is released before the body is invoked, and the release lock is
\* acquired only after the body has returned.
C29_NoLockDuringJob ==
    /\ \A c \in Calls : InJob(c) => ~HoldsLock(c)
    /\ \A c \in Calls : pc[c] \in {"unregGet", "unregSet", "release2"} => hist[c].jobs > 0

\* Two calls whose key sets overlap run their job bodies at the same time.
C29_Witness ==
    \E c, d \in Calls :
        /\ c # d
        /\ InJob(c) /\ InJob(d)
        /\ keysOf(c) \cap keysOf(d) # {}
        /\ ~HoldsLock(c) /\ ~HoldsLock(d)

\* C30: within a window the value of a jobs or items counter never
\* decreases, whatever the interleaving of the calls: a step that leaves the
\* counter in the store leaves its value as it is or raises it, and the
\* release phase of a call does not write it.
C30_WindowMonotone ==
    [][\A k \in TimedKeys \cap DOMAIN store :
          /\ k \in DOMAIN store' => store'[k].val >= store[k].val
          /\ (\E c \in Calls : pc[c] \in {"unregGet", "unregSet"} /\ pc'[c] # pc[c])
                 => (k \in DOMAIN store' /\ store'[k] = store[k])]_vars

\* The concurrency rules that apply to a call.
ConcRuleChecks(c) == {s \in RuleChecks(c) : s.check.type = "maxConcurrentJobs"}

\* C31: a call that finds a concurrency counter at or above its configured
\* threshold T is rejected, also for T = 0: a call to which a rule with
\* threshold 0 applies never gets past admission, and a check that reads a
\* value at or above its threshold rejects in that step.
C31_ThresholdZero ==
    [][\A c \in Calls :
          /\ (\E s \in ConcRuleChecks(c) : s.rule.count = 0) => ~JobStarts(c)
          /\ (/\ pc[c] = "check"
              /\ checksOf(c)[idx[c]].type = "maxConcurrentJobs"
              /\ GetCount(store, checksOf(c)[idx[c]].rKey) >= checksOf(c)[idx[c]].limit.count
              /\ pc'[c] # pc[c]) => pc'[c] \in {"rejected", "storeError"}]_vars

\* C32: the first check that rejects ends the evaluation: once a check of a
\* call has built its error, no later check of the call is evaluated (the
\* position in the check sequence stays), nothing more is staged, no staged
\* action of the call reaches the store, and the call only returns.
C32_ShortCircuit ==
    [][\A c \in Calls :
          err'[c] # NoErr =>
              /\ pc'[c] \in {"expires", "rejected", "storeError"}
              /\ idx'[c] = idx[c]
              /\ rActions'[c] = rActions[c]
              /\ pc'[c] # pc[c] => store' = store]_vars

\* A call was rejected by its second check: the increment staged by its
\* first check has not reached the store.
C32_Witness ==
    \E c \in Calls :
        /\ pc[c] = "rejected"
        /\ Len(rActions[c]) >= 1
        /\ idx[c] = Len(rActions[c]) + 1
        /\ GetCount(store, rActions[c][1].key) # rActions[c][1].val

\* The call leaves the commit / the lock release in this step.
LeavesCommit(c) == pc[c] = "commit" /\ pc'[c] # "commit"
LeavesRelease(c) == pc[c] = "release" /\ pc'[c] # "release"

\* C33: the counter writes of the commit are best effort: when the write of
\* a staged increment fails, the call is admitted all the same, the other
\* staged increments reach the store, the lock is released and the job body
\* runs.
C33_BestEffortCommit ==
    [][\A c \in Calls :
          /\ LeavesCommit(c) =>
                /\ pc'[c] = "release"
                /\ \A i \in DOMAIN rActions[c] \ hist'[c].lost :
                      /\ rActions[c][i].key \in DOMAIN store'
                      /\ store'[rActions[c][i].key].val = rActions[c][i].val
                /\ \A i \in hist'[c].lost :
                      GetCount(store', rActions[c][i].key) = GetCount(store, rActions[c][i].key)
          /\ LeavesRelease(c) =>
                /\ pc'[c] = "job"
                /\ hist'[c].jobs = hist[c].jobs + 1
                /\ \A l \in locks' : l.holder # c]_vars

\* The job of a call runs although one of its two staged writes failed; the
\* other one is in the store.
C33_Witness ==
    \E c \in Calls :
        /\ pc[c] = "job"
        /\ Len(rActions[c]) = 2
        /\ Cardinality(hist[c].lost) = 1
        /\ \E i \in DOMAIN rActions[c] \ hist[c].lost :
              GetCount(store, rActions[c][i].key) = rActions[c][i].val
        /\ ~HoldsLock(c)

\* The items counters and the kind-specific counters of the callers: the
\* keys the item checks use for the inputs with an item count, and the keys
\* the kind checks and the kind unregister functions use for the inputs with
\* a kind.
ItemsKeys ==
    UNION {{ checkNamespaceMaxItemsPerTimespanGlobal(rules, a.ns, a.key, a.kind).rKey,
             checkKeyMaxItemsPerTimespanGlobal(rules, a.ns, a.key, a.kind).rKey }
           \cup (IF Truthy(a.kind)
                 THEN { checkNamespaceMaxItemsPerTimespanPerKind(rules, a.ns, a.key, a.kind).rKey,
                        checkKeyMaxItemsPerTimespanPerKind(rules, a.ns, a.key, a.kind).rKey }
                 ELSE {}) :
           a \in {b \in scn.inputs : b.items # NoItems}}
KindKeys ==
    UNION {{ checkKeyMaxJobsPerTimespanPerKind(rules, a.ns, a.key, a.kind).rKey,
             checkKeyMaxConcurrentJobsPerKind(rules, a.ns, a.key, a.kind).rKey,
             checkNamespaceMaxConcurrentJobsPerKind(rules, a.ns, a.key, a.kind).rKey,
             checkNamespaceMaxJobsPerTimespanPerKind(rules, a.ns, a.key, a.kind).rKey,
             unregisterNamespaceKind(rules, a.ns, a.kind).rKey,
             unregisterKeyKind(rules, a.ns, a.key, a.kind).rKey }
           \cup (IF a.items # NoItems
                 THEN { checkNamespaceMaxItemsPerTimespanPerKind(rules, a.ns, a.key, a.kind).rKey,
                        checkKeyMaxItemsPerTimespanPerKind(rules, a.ns, a.key, a.kind).rKey }
                 ELSE {}) :
           a \in {b \in scn.inputs : Truthy(b.kind)}}
Untouched(ks) ==
    \A k \in ks : /\ k \in DOMAIN store <=> k \in DOMAIN store'
                  /\ k \in DOMAIN store => store'[k] = store[k]

\* C34: the items counters are written only by calls that supply an item
\* count, the kind-specific counters only by calls that supply a kind: no
\* step of a call without items changes an items counter, and no step of a
\* call without kind changes a kind-specific counter.
C34_OptionFrame ==
    [][\A c \in Calls :
          CallStep(c) =>
              /\ args'[c].items = NoItems => Untouched(ItemsKeys)
              /\ ~Truthy(args'[c].kind) => Untouched(KindKeys)]_vars

\* The unregister function of the call writes its counter in this step.
Unregisters(c) == pc[c] = "unregSet" /\ pc'[c] \in {"unregGet", "release2"}

\* C35: every concurrency counter in the store is a non-negative integer in
\* every state, and a release that finds its counter at 0 leaves it at 0.
C35_NonNegative ==
    [][/\ \A k \in ConcurrencyKeys \cap DOMAIN store' : store'[k].val >= 0
       /\ \A c \in Calls :
             (Unregisters(c) /\ cnt[c] = 0) =>
                 GetCount(store', unregsOf(c)[idx[c]].rKey) = 0]_vars

\* A call has released a concurrency counter that it had not incremented:
\* the counter is in the store with the value 0.
C35_Witness ==
    \E c \in Calls :
        /\ pc[c] \in {"release2", "done"}
        /\ \E i \in DOMAIN unregsOf(c) :
              /\ unregsOf(c)[i].rKey \in DOMAIN store
              /\ unregsOf(c)[i].rKey \in ConcurrencyKeys
              /\ store[unregsOf(c)[i].rKey].val = 0
              /\ \A j \in DOMAIN rActions[c] \ hist[c].lost :
                    rActions[c][j].key # unregsOf(c)[i].rKey

\* No call is inside a critical section, no call has failed, and no write of
\* a commit was lost.
Quiet ==
    /\ \A c \in Calls : pc[c] \notin InSection \cup Thrown
    /\ \A c \in Calls : hist[c].lost = {}
\* The admitted calls of namespace ns that have not been released.
Unreleased(ns) == {c \in Calls : pc[c] \in {"job", "reacquire"} /\ args[c].ns = ns}

\* C36: whenever no call is inside a critical section and no store write has
\* failed, the namespace-global concurrency counter (of a threshold of 1 or
\* more) equals the number of
\* admitted calls of the namespace that have not been released, whatever the
\* keys and kinds of the calls and however they interleave.
C36_CounterExact ==
    (NumTruthy(rules.namespace.maxConcurrentJobs.global) /\ Quiet) =>
        \A a \in scn.inputs :
            GetCount(store, MaxConcNamespaceKey(a.ns, Undefined))
                = Cardinality(Unreleased(a.ns))

\* The call's check of counter k passed and its staged increment was
\* written at the commit.
Incremented(c, k) ==
    \E j \in DOMAIN rActions[c] \ hist[c].lost : rActions[c][j].key = k

\* C37: at its release a call decrements only the concurrency counters that
\* the call itself incremented on admission: a step of its release phase
\* lowers no counter whose rule was not checked for the call or whose staged
\* increment failed to be written.
C37_DecrementsOwn ==
    [][\A c \in Calls :
          Unregisters(c) =>
              LET k == unregsOf(c)[idx[c]].rKey
              IN  GetCount(store', k) < GetCount(store, k) => Incremented(c, k)]_vars

\* The call obtains a lock in this step.
Obtains(c) ==
    /\ pc[c] \in {"acquire", "reacquire"}
    /\ pc'[c] \notin {"acquire", "reacquire", "acquireError", "reacquireError"}

\* C39: both lock acquisitions of a call, the one of the check phase and the
\* one of the release phase, ask for the lease the Limiter was configured
\* with, lockDuration, which is 5000 ms when none was configured.
C39_ConfiguredLease ==
    [][\A c \in Calls :
          Obtains(c) =>
              /\ \E l \in locks' :
                    /\ l.holder = c
                    /\ l.lease = This(c).lockDuration
              /\ This(c).lockDuration =
                    (IF scn.lease = 0 THEN DefaultLockDuration ELSE scn.lease)]_vars

(***************************************************************************)
(* The Limiter version with bypass() / unsetBypass().  It has no lock and  *)
(* no id: the namespace is a field of the Limiter (args[c].ns here), and   *)
(* exec(key, callback, opts) reads this.bypassLimits twice, before the     *)
(* checks and after the callback.  Its definitions carry the suffix B.     *)
(***************************************************************************)
MaxItemsNamespaceKeyB(ns, kind) == "rl-mppt-" \o ns \o DashKind(kind)
MaxItemsKeyspaceKeyB(ns, key, kind) == "rl-mppt-" \o ns \o "-" \o key \o OrEmpty(kind)
MaxJobsNamespaceKeyB(ns, kind) == "rl-mrpt-" \o ns \o DashKind(kind)
MaxJobsKeyspaceKeyB(ns, key, kind) == "rl-mrpt-" \o ns \o "-" \o key \o DashKind(kind)
MaxConcNamespaceKeyB(ns, kind) == "rl-mcr-" \o ns \o DashKind(kind)
MaxConcKeyspaceKeyB(ns, key, kind) == "rl-mcr-" \o ns \o "-" \o key \o DashKind(kind)

checkNamespaceMaxJobsPerTimespanGlobalB(r, ns, key, kind) ==
    CheckDesc(ObjTruthy(r.namespace.maxJobsPerTimespan.global),
              MaxJobsNamespaceKeyB(ns, Undefined),
              r.namespace.maxJobsPerTimespan.global,
              r.namespace.maxJobsPerTimespan.global,
              "namespace", "maxJobsPerTimespan", TRUE)
checkKeyMaxJobsPerTimespanGlobalB(r, ns, key, kind) ==
    CheckDesc(ObjTruthy(r.keyspace.maxJobsPerTimespan.global),
              MaxJobsKeyspaceKeyB(ns, key, Undefined),
              r.keyspace.maxJobsPerTimespan.global,
              r.keyspace.maxJobsPerTimespan.global,
              "key", "maxJobsPerTimespan", TRUE)
checkNamespaceMaxJobsPerTimespanPerKindB(r, ns, key, kind) ==
    CheckDesc(ObjTruthy(KindRule(r.namespace.maxJobsPerTimespan, kind)),
              MaxJobsNamespaceKeyB(ns, kind),
              KindRule(r.namespace.maxJobsPerTimespan, kind),
              r.namespace.maxJobsPerTimespan.global,
              "namespace", "maxJobsPerTimespan", FALSE)
checkKeyMaxJobsPerTimespanPerKindB(r, ns, key, kind) ==
    CheckDesc(ObjTruthy(KindRule(r.keyspace.maxJobsPerTimespan, kind)),
              MaxJobsKeyspaceKeyB(ns, kind, Undefined),
              KindRule(r.namespace.maxJobsPerTimespan, kind),
              r.keyspace.maxJobsPerTimespan.global,
              "namespace", "maxJobsPerTimespan", FALSE)
checkNamespaceMaxItemsPerTimespanGlobalB(r, ns, key, kind) ==
    CheckDesc(ObjTruthy(r.namespace.maxItemsPerTimespan.global),
              MaxItemsNamespaceKeyB(ns, Undefined),
              r.namespace.maxItemsPerTimespan.global,
              r.namespace.maxItemsPerTimespan.global,
              "namespace", "maxItemsPerTimespan", TRUE)
checkNamespaceMaxItemsPerTimespanPerKindB(r, ns, key, kind) ==
    CheckDesc(ObjTruthy(KindRule(r.namespace.maxItemsPerTimespan, kind)),
              MaxItemsNamespaceKeyB(ns, kind),
              KindRule(r.namespace.maxItemsPerTimespan, kind),
              KindRule(r.namespace.maxItemsPerTimespan, kind),
              "namespace", "maxItemsPerTimespan", FALSE)
checkKeyMaxItemsPerTimespanPerKindB(r, ns, key, kind) ==
    CheckDesc(ObjTruthy(KindRule(r.keyspace.maxItemsPerTimespan, kind)),
              MaxItemsKeyspaceKeyB(ns, key, kind),
              KindRule(r.keyspace.maxItemsPerTimespan, kind),
              KindRule(r.keyspace.maxItemsPerTimespan, kind),
              "key", "maxItemsPerTimespan", FALSE)
checkKeyMaxItemsPerTimespanGlobalB(r, ns, key, kind) ==
    CheckDesc(ObjTruthy(r.keyspace.maxItemsPerTimespan.global),
              MaxItemsKeyspaceKeyB(ns, key, Undefined),
              r.keyspace.maxItemsPerTimespan.global,
              r.keyspace.maxItemsPerTimespan.global,
              "key", "maxItemsPerTimespan", TRUE)
checkNamespaceMaxConcurrentJobsGlobalB(r, ns, key, kind) ==
    CheckDesc(NumTruthy(r.namespace.maxConcurrentJobs.global),
              MaxConcNamespaceKeyB(ns, Undefined),
              r.namespace.maxConcurrentJobs.global,
              NoRule,
              "namespace", "maxConcurrentJobs", TRUE)
checkKeyMaxConcurrentJobsGlobalB(r, ns, key, kind) ==
    CheckDesc(NumTruthy(r.keyspace.maxConcurrentJobs.global),
              MaxConcKeyspaceKeyB(ns, key, Undefined),
              r.keyspace.maxConcurrentJobs.global,
              NoRule,
              "key", "maxConcurrentJobs", TRUE)
checkNamespaceMaxConcurrentJobsPerKindB(r, ns, key, kind) ==
    CheckDesc(NumTruthy(KindRule(r.namespace.maxConcurrentJobs, kind)),
              MaxConcNamespaceKeyB(ns, kind),
              KindRule(r.namespace.maxConcurrentJobs, kind),
              NoRule,
              "namespace", "maxConcurrentJobs", FALSE)
checkKeyMaxConcurrentJobsPerKindB(r, ns, key, kind) ==
    CheckDesc(NumTruthy(KindRule(r.namespace.maxConcurrentJobs, kind)),
              MaxConcKeyspaceKeyB(ns, key, kind),
              KindRule(r.namespace.maxConcurrentJobs, kind),
              NoRule,
              "namespace", "maxConcurrentJobs", FALSE)

\* The checks of exec() in the order exec() awaits them.
execChecksB(r, ns, key, kind, items) ==
    << checkNamespaceMaxConcurrentJobsGlobalB(r, ns, key, kind),
       checkNamespaceMaxJobsPerTimespanGlobalB(r, ns, key, kind),
       checkKeyMaxConcurrentJobsGlobalB(r, ns, key, kind),
       checkKeyMaxJobsPerTimespanGlobalB(r, ns, key, kind) >>
    \o (IF items # NoItems
        THEN << checkNamespaceMaxItemsPerTimespanGlobalB(r, ns, key, kind),
                checkKeyMaxItemsPerTimespanGlobalB(r, ns, key, kind) >>
             \o (IF Truthy(kind)
                 THEN << checkNamespaceMaxItemsPerTimespanPerKindB(r, ns, key, kind),
                         checkKeyMaxItemsPerTimespanPerKindB(r, ns, key, kind) >>
                 ELSE << >>)
        ELSE << >>)
    \o (IF Truthy(kind)
        THEN << checkKeyMaxJobsPerTimespanPerKindB(r, ns, key, kind),
                checkKeyMaxConcurrentJobsPerKindB(r, ns, key, kind),
                checkNamespaceMaxConcurrentJobsPerKindB(r, ns, key, kind),
                checkNamespaceMaxJobsPerTimespanPerKindB(r, ns, key, kind) >>
        ELSE << >>)

unregisterNamespaceJobGlobalB(r, ns) ==
    UnregDesc(NumTruthy(r.namespace.maxConcurrentJobs.global),
              MaxConcNamespaceKeyB(ns, Undefined))
unregisterKeyJobGlobalB(r, ns, key) ==
    UnregDesc(NumTruthy(r.keyspace.maxConcurrentJobs.global),
              MaxConcKeyspaceKeyB(ns, key, Undefined))
unregisterNamespaceKindB(r, ns, kind) ==
    UnregDesc(NumTruthy(KindRule(r.namespace.maxConcurrentJobs, kind)),
              MaxConcNamespaceKeyB(ns, kind))
unregisterKeyKindB(r, ns, key, kind) ==
    UnregDesc(NumTruthy(KindRule(r.keyspace.maxConcurrentJobs, kind)),
              MaxConcKeyspaceKeyB(ns, key, kind))
resetConcurrencyLimitsB(r, ns, key, kind) ==
    << unregisterNamespaceJobGlobalB(r, ns),
       unregisterKeyJobGlobalB(r, ns, key) >>
    \o (IF Truthy(kind)
        THEN << unregisterNamespaceKindB(r, ns, kind),
                unregisterKeyKindB(r, ns, key, kind) >>
        ELSE << >>)

checksOfB(c) ==
    SelectSeq(execChecksB(rules, args[c].ns, args[c].key, args[c].kind, args[c].items),
              LAMBDA d : d.on)
unregsOfB(c) ==
    SelectSeq(resetConcurrencyLimitsB(rules, args[c].ns, args[c].key, args[c].kind),
              LAMBDA d : d.on)

\* buildError: the error has no limiterId and no global field; only the
\* per-kind checks pass the kind.
buildErrorB(d, a) ==
    [scope |-> d.scope, type |-> d.type, global |-> FALSE,
     limiterId |-> "", namespace |-> a.ns, key |-> a.key,
     kind |-> IF d.global THEN Undefined ELSE a.kind, expiresIn |-> NoItems]

\* exec(key, callback, opts) is called: if (!this.bypassLimits) the checks
\* begin, else the callback is called at once.
BStart(c) ==
    /\ NextSlot(c)
    /\ starts < scn.maxStarts
    /\ Cardinality({d \in Calls : ~Free(d)}) < scn.par
    /\ \E a \in scn.inputs :
          /\ args' = [args EXCEPT ![c] = a]
          /\ pc' = [pc EXCEPT ![c] =
                      IF bypassLimits THEN "job"
                      ELSE IF SelectSeq(execChecksB(rules, a.ns, a.key, a.kind, a.items),
                                        LAMBDA d : d.on) = << >>
                      THEN "commit" ELSE "check"]
    /\ starts' = starts + 1
    /\ idx' = [idx EXCEPT ![c] = 1]
    /\ rActions' = [rActions EXCEPT ![c] = << >>]
    /\ err' = [err EXCEPT ![c] = NoErr]
    /\ cnt' = [cnt EXCEPT ![c] = 0]
    /\ hist' = [hist EXCEPT ![c] = [ord |-> starts + 1, t0 |-> clock, tDec |-> clock,
                                     jobs |-> IF bypassLimits THEN 1 ELSE 0,
                                     inst |-> 1, lost |-> {},
                                     bypassed |-> bypassLimits]]
    /\ UNCHANGED << rules, lockDuration, bypassLimits, scn, store, locks, clock, waited >>

\* err = await this.check...(redisActions, key, ...); if (err) return [null, err]
BCheck(c) ==
    /\ pc[c] = "check"
    /\ LET d == checksOfB(c)[idx[c]]
           count == GetCount(store, d.rKey)
           timed == d.type # "maxConcurrentJobs"
           last == idx[c] = Len(checksOfB(c))
       IN  IF ~d.limit.def
           THEN \* reading .count of undefined
                /\ pc' = [pc EXCEPT ![c] = "typeError"]
                /\ UNCHANGED << err, rActions, idx >>
           ELSE IF Exceeds(d, count)
           THEN /\ err' = [err EXCEPT ![c] = buildErrorB(d, args[c])]
                /\ pc' = [pc EXCEPT ![c] = AfterReject(timed)]
                /\ UNCHANGED << rActions, idx >>
           ELSE IF timed /\ ~d.window.def
           THEN \* reading .timespan of undefined
                /\ pc' = [pc EXCEPT ![c] = "typeError"]
                /\ UNCHANGED << err, rActions, idx >>
           ELSE /\ rActions' = [rActions EXCEPT
                                  ![c] = Append(@, Staged(d, count, args[c].items))]
                /\ idx' = [idx EXCEPT ![c] = @ + 1]
                /\ pc' = [pc EXCEPT ![c] = AfterCheck(last)]
                /\ UNCHANGED err
    /\ UNCHANGED << rules, lockDuration, bypassLimits, scn, store, locks, clock, starts, args,
                    cnt, waited, hist >>

\* expiresIn: await this.getExpiresIn(rKey), then return [null, err]
BExpires(c) ==
    /\ pc[c] = "expires"
    /\ err' = [err EXCEPT ![c].expiresIn = getExpiresIn(store, checksOfB(c)[idx[c]].rKey)]
    /\ pc' = [pc EXCEPT ![c] = "rejected"]
    /\ UNCHANGED << rules, lockDuration, bypassLimits, scn, store, locks, clock, starts, args,
                    idx, rActions, cnt, waited, hist >>

\* await Promise.allSettled(redisActions.map(a => a())); the callback is called
BCommit(c) ==
    /\ pc[c] = "commit"
    /\ \E lost \in (IF scn.fails THEN SUBSET DOMAIN rActions[c] ELSE {{}}) :
          /\ store' = RunActions(store, Settled(rActions[c], lost))
          /\ hist' = [hist EXCEPT ![c].tDec = clock, ![c].lost = lost, ![c].jobs = @ + 1]
    /\ pc' = [pc EXCEPT ![c] = "job"]
    /\ UNCHANGED << rules, lockDuration, bypassLimits, scn, locks, clock, starts, args, idx,
                    rActions, err, cnt, waited >>

\* const result = await callback() resolves; if (!this.bypassLimits)
\* resetConcurrencyLimits begins, else return [result, null]
BJobReturn(c) ==
    /\ pc[c] = "job"
    /\ idx' = [idx EXCEPT ![c] = 1]
    /\ pc' = [pc EXCEPT ![c] = IF bypassLimits \/ unregsOfB(c) = << >>
                               THEN "done" ELSE "unregGet"]
    /\ UNCHANGED << rules, lockDuration, bypassLimits, scn, store, locks, clock, starts, args,
                    rActions, err, cnt, waited, hist >>

\* ... or the callback rejects and so does exec()
BJobThrow(c) ==
    /\ pc[c] = "job"
    /\ scn.throws
    /\ pc' = [pc EXCEPT ![c] = "jobError"]
    /\ UNCHANGED << rules, lockDuration, bypassLimits, scn, store, locks, clock, starts, args,
                    idx, rActions, err, cnt, waited, hist >>

\* unregister...: const count = parseInt(await this.redis.get(rKey) || "0")
BUnregGet(c) ==
    /\ pc[c] = "unregGet"
    /\ cnt' = [cnt EXCEPT ![c] = GetCount(store, unregsOfB(c)[idx[c]].rKey)]
    /\ pc' = [pc EXCEPT ![c] = "unregSet"]
    /\ UNCHANGED << rules, lockDuration, bypassLimits, scn, store, locks, clock, starts, args,
                    idx, rActions, err, waited, hist >>

\* await this.redis.set(rKey, count == 0 ? 0 : count - 1); after the last
\* one return [result, null]
BUnregSet(c) ==
    /\ pc[c] = "unregSet"
    /\ store' = SetPlain(store, unregsOfB(c)[idx[c]].rKey, Decremented(cnt[c]))
    /\ idx' = [idx EXCEPT ![c] = @ + 1]
    /\ pc' = [pc EXCEPT ![c] = IF idx[c] = Len(unregsOfB(c)) THEN "done" ELSE "unregGet"]
    /\ UNCHANGED << rules, lockDuration, bypassLimits, scn, locks, clock, starts, args,
                    rActions, err, cnt, waited, hist >>

\* an awaited get / pttl / set rejects: exec() rejects with the client's error
BStoreFail(c) ==
    /\ scn.fails
    /\ pc[c] \in {"check", "expires", "unregGet", "unregSet"}
    /\ pc' = [pc EXCEPT ![c] = "storeError"]
    /\ UNCHANGED << rules, lockDuration, bypassLimits, scn, store, locks, clock, starts, args,
                    idx, rActions, err, cnt, waited, hist >>

\* bypass() { this.bypassLimits = true }
bypass ==
    /\ bypassLimits' = TRUE
    /\ UNCHANGED << rules, lockDuration, scn, store, locks, clock, starts, args, pc, idx,
                    rActions, err, cnt, waited, hist >>

\* unsetBypass() { this.bypassLimits = false }
unsetBypass ==
    /\ bypassLimits' = FALSE
    /\ UNCHANGED << rules, lockDuration, scn, store, locks, clock, starts, args, pc, idx,
                    rActions, err, cnt, waited, hist >>

\* Quantum ms pass: the counters with a TTL age and expire.
BTick ==
    /\ clock < scn.maxTicks
    /\ clock' = clock + 1
    /\ store' = Aged(store)
    /\ UNCHANGED << rules, lockDuration, bypassLimits, scn, locks, starts, pc, args, idx,
                    rActions, err, cnt, waited, hist >>

\* new Limiter(redis, "n", rules) and its callers
SetupsBypass ==
    { << RulesNsConcTwo, ScnPair >>,
      << RulesNsConcJobs, ScnThrows >>,
      << RulesNsConcKind, ScnKind >>,
      << RulesNsConcGlobal, ScnFails >> }

InitBypass == \E su \in SetupsBypass : InitWith(su[1], su[2], 0)

NextBypass ==
    \/ \E c \in Calls :
          \/ BStart(c) \/ BCheck(c) \/ BExpires(c) \/ BCommit(c)
          \/ BJobReturn(c) \/ BJobThrow(c)
          \/ BUnregGet(c) \/ BUnregSet(c) \/ BStoreFail(c)
    \/ bypass
    \/ unsetBypass
    \/ BTick

SpecBypass == InitBypass /\ [][NextBypass]_vars

\* The call's check phase ran and a concurrency increment it staged was
\* written by the commit.
IncrementedConc(c) ==
    /\ ~hist[c].bypassed
    /\ \E i \in DOMAIN rActions[c] : rActions[c][i].mode = "SET" /\ i \notin hist[c].lost
\* The job body of the call resolves in this step.
Completes(c) == pc[c] = "job" /\ pc'[c] \notin {"job", "jobError"}

\* C38: a call whose check phase ran with bypass off and incremented
\* concurrency counters goes on to decrement them when its job body
\* completes, whatever bypass() did meanwhile; and a call whose check phase
\* was bypassed never reads or writes a counter to decrement it.
C38_BypassDecrements ==
    [][\A c \in Calls :
          /\ (Completes(c) /\ IncrementedConc(c)) => pc'[c] = "unregGet"
          /\ hist'[c].bypassed => pc'[c] \notin {"unregGet", "unregSet"}]_vars

=============================================================================
